---- MODULE Spec2Model ----
(***************************************************************************)
(* State-machine model of the AURA retrieval core:                         *)
(*   - the persistent chunk store  (Website/backend/lightrag_local.py)     *)
(*   - the graph-aware engine      (Website/backend/lightrag.py)           *)
(*   - the build entry points      (database_api.py, database_bridge.py)   *)
(* Strings are sequences of one-character strings, so that join, slice,    *)
(* split and tokenisation are computed as the code computes them.          *)
(* Sequence positions are 1-based here, 0-based in the Python source.      *)
(***************************************************************************)
EXTENDS Integers, Sequences, FiniteSets, TLC

VARIABLES rag, disk, last, qres, build,
          gpc, graph_db, chroma, fed, chunks_left, ginfo, gres,
          deployment, reqs,
          calls, srv, fs, ck, otp

storeVars == <<rag, disk, last, qres, build>>
graphVars == <<gpc, graph_db, chroma, fed, chunks_left, ginfo, gres>>
\* calls: ainsert calls in flight on one instance; srv: the singleton of
\* simulator_api.py; fs: the documents tree and its owner records; ck: a run of
\* _chunk_text; otp: the one-time-code store with its clock
auxVars == <<calls, srv, fs, ck, otp>>
vars == <<rag, disk, last, qres, build, gpc, graph_db, chroma, fed, chunks_left, ginfo, gres,
          deployment, reqs, calls, srv, fs, ck, otp>>

(***************************************************************************)
(* Bounds and configuration                                                *)
(***************************************************************************)
\* most rows an instance holds before ainsert is no longer explored
MaxRows == 3
\* AURA_MAX_CTX_CHARS (env override of lightrag_local.py:28, default 6000),
\* set small so that short texts reach the truncation branch
MAX_CTX_CHARS == 8
\* AURA_BM25_REBUILD_EVERY (env override of lightrag_local.py:33, default 50)
BM25_REBUILD_EVERY == 2
\* scale of a normalised vector: a unit vector is stored as UNIT * v
UNIT == 5
\* most chunks of one index build, most fragments of one extraction output
MaxChunks == 2
MaxItems == 2
\* most fragments one index build feeds to the graph
MaxFed == 3

(***************************************************************************)
(* Generic helpers                                                         *)
(***************************************************************************)
Max2(a, b) == IF a >= b THEN a ELSE b
Min2(a, b) == IF a <= b THEN a ELSE b
AbsInt(a) == IF a < 0 THEN 0 - a ELSE a

RECURSIVE SumSeq(_)
SumSeq(s) == IF s = <<>> THEN 0 ELSE Head(s) + SumSeq(Tail(s))

RECURSIVE JoinSeq(_, _)
\* sep.join(parts)
JoinSeq(parts, sep) ==
    IF parts = <<>> THEN <<>>
    ELSE IF Len(parts) = 1 THEN parts[1]
    ELSE parts[1] \o sep \o JoinSeq(Tail(parts), sep)

PermsOf(n) == { p \in [1..n -> 1..n] : \A i, j \in 1..n : i # j => p[i] # p[j] }

None == [none |-> TRUE, m |-> <<>>]
Some(x) == [none |-> FALSE, m |-> x]

(***************************************************************************)
(* Texts, tokenisation, embeddings                                         *)
(***************************************************************************)
Alnum == {"a", "b", "A", "B"}
Lower(c) == IF c = "A" THEN "a" ELSE IF c = "B" THEN "b" ELSE c

T1 == <<"a">>
T2 == <<"B", " ", "a">>
T3 == <<"b", "-", "b">>
Q1 == <<"a", "?">>
Q2 == <<"b">>
Q3 == <<"!">>
Texts == {T1, T2, T3}
Queries == {Q1, Q2, Q3}
Metas == {[has |-> TRUE, source |-> "f1"], [has |-> TRUE, source |-> "f2"], [has |-> FALSE, source |-> ""]}
\* the chunks a build feeds to ainsert: text with its meta
Inputs == {[text |-> T1, meta |-> [has |-> TRUE, source |-> "f1"]],
           [text |-> T2, meta |-> [has |-> TRUE, source |-> "f1"]],
           [text |-> T3, meta |-> [has |-> TRUE, source |-> "f2"]],
           [text |-> T1, meta |-> [has |-> FALSE, source |-> ""]]}

RECURSIVE TokenizeFrom(_, _, _)
TokenizeFrom(s, word, out) ==
    IF s = <<>> THEN (IF word # <<>> THEN Append(out, word) ELSE out)
    ELSE IF Head(s) \in Alnum
         THEN TokenizeFrom(Tail(s), Append(word, Head(s)), out)
         ELSE TokenizeFrom(Tail(s), <<>>, IF word # <<>> THEN Append(out, word) ELSE out)

\* _tokenize: lower-case, split into alnum runs
Tokenize(s) == TokenizeFrom([i \in 1..Len(s) |-> Lower(s[i])], <<>>, <<>>)

\* the vector the embedding service returns for a text (stable embeddings)
EmbedOf(t) ==
    IF t = T1 THEN <<10, 0>>
    ELSE IF t = T2 THEN <<3, 4>>
    ELSE IF t = T3 THEN <<0, 5>>
    ELSE IF t = Q1 THEN <<10, 0>>
    ELSE IF t = Q2 THEN <<0, -10>>
    ELSE <<6, 8>>

ISqrt(n) == CHOOSE r \in 0..n : r * r <= n /\ (r + 1) * (r + 1) > n
Norm(v) == ISqrt(SumSeq([i \in 1..Len(v) |-> v[i] * v[i]]))
\* _normalize: v / (|v| + 1e-12); the zero vector stays zero
Normalize(v) == [i \in 1..Len(v) |-> IF Norm(v) = 0 THEN 0 ELSE (v[i] * UNIT) \div Norm(v)]
\* inner product of two normalised vectors (cosine similarity * UNIT^2)
Dot(u, v) == SumSeq([i \in 1..Len(u) |-> u[i] * v[i]])

(***************************************************************************)
(* Chunk store: lightrag_local.LightRAG                                    *)
(***************************************************************************)
NoFile == [exists |-> FALSE, ok |-> FALSE, m |-> <<>>]
File(x) == [exists |-> TRUE, ok |-> TRUE, m |-> x]
\* a file cut short by a failed write: present but unreadable
Corrupt == [exists |-> TRUE, ok |-> FALSE, m |-> <<>>]

EmptyDisk == [meta |-> NoFile, embf |-> NoFile, idxf |-> NoFile]

\* _load_json(meta_path, default=[])
LoadJson(f) == IF f.exists /\ f.ok THEN f.m ELSE <<>>

\* variant: a readable embeddings.npy is used whatever its row count
EmbUsable_NoCount(e, r) == ~e.none

\* the row-count test of _load_store
EmbUsable(e, r) == (~e.none) /\ Len(e.m) = Len(r)

\* __init__ + _load_store
LoadStore(d) ==
    LET r == LoadJson(d.meta)
        e == IF d.embf.exists /\ d.embf.ok THEN Some(d.embf.m) ELSE None
        toks == [i \in 1..Len(r) |-> Tokenize(r[i].text)]
    IN [rows |-> r,
        emb |-> IF EmbUsable(e, r) THEN e ELSE None,
        index |-> IF EmbUsable(e, r) THEN e ELSE None,
        bm25 |-> IF toks # <<>> THEN Some(toks) ELSE None,
        bm25_tokens |-> toks,
        inserts_since_bm25 |-> 0]

\* variant: reset() that leaves the loaded store as it is
ResetMem_KeepsRows(s) == s

\* variant: reset() that clears the rows and keeps the matrix and the index
ResetMem_KeepsIndex(s) ==
    [rows |-> <<>>, emb |-> s.emb, index |-> s.index, bm25 |-> None,
     bm25_tokens |-> <<>>, inserts_since_bm25 |-> 0]

\* the in-memory half of reset()
ResetMem(s) ==
    [rows |-> <<>>, emb |-> None, index |-> None, bm25 |-> None,
     bm25_tokens |-> <<>>, inserts_since_bm25 |-> 0]

\* variant: reset() that removes meta.json and faiss.index only
ResetDisk_KeepsEmb(d) == [d EXCEPT !.meta = NoFile, !.idxf = NoFile]

\* reset() removes meta.json, embeddings.npy and faiss.index
ResetDisk(d) == EmptyDisk

\* the row ainsert appends
NewRow(s, text, meta) == [id |-> Len(s.rows), text |-> text, meta |-> meta]

\* variant: ainsert that never rebuilds the keyword index
AinsertMem_NoRebuild(s, text, meta, rawemb) ==
    LET e == Normalize(rawemb)
    IN [rows |-> Append(s.rows, NewRow(s, text, meta)),
        emb |-> IF s.emb.none THEN Some(<<e>>) ELSE Some(Append(s.emb.m, e)),
        index |-> IF s.emb.none THEN Some(<<e>>) ELSE Some(Append(s.index.m, e)),
        bm25 |-> s.bm25,
        bm25_tokens |-> Append(s.bm25_tokens, Tokenize(text)),
        inserts_since_bm25 |-> s.inserts_since_bm25 + 1]

\* variant: the new row, embedding and token list are put in front
AinsertMem_Front(s, text, meta, rawemb) ==
    LET e == Normalize(rawemb)
    IN [rows |-> <<NewRow(s, text, meta)>> \o s.rows,
        emb |-> IF s.emb.none THEN Some(<<e>>) ELSE Some(<<e>> \o s.emb.m),
        index |-> IF s.emb.none THEN Some(<<e>>) ELSE Some(<<e>> \o s.index.m),
        bm25 |-> s.bm25,
        bm25_tokens |-> <<Tokenize(text)>> \o s.bm25_tokens,
        inserts_since_bm25 |-> s.inserts_since_bm25]

\* ainsert after the embedding call returned emb
AinsertMem(s, text, meta, rawemb) ==
    LET e == Normalize(rawemb)
        r2 == Append(s.rows, NewRow(s, text, meta))
        emb2 == IF s.emb.none THEN Some(<<e>>) ELSE Some(Append(s.emb.m, e))
        idx2 == IF s.emb.none THEN Some(<<e>>) ELSE Some(Append(s.index.m, e))
        tok2 == Append(s.bm25_tokens, Tokenize(text))
        n2 == s.inserts_since_bm25 + 1
        rebuild == n2 >= BM25_REBUILD_EVERY
    IN [rows |-> r2, emb |-> emb2, index |-> idx2,
        bm25 |-> IF rebuild THEN (IF tok2 # <<>> THEN Some(tok2) ELSE None) ELSE s.bm25,
        bm25_tokens |-> tok2,
        inserts_since_bm25 |-> IF rebuild THEN 0 ELSE n2]

\* flush(): the BM25 rebuild it does first
FlushMem(s) ==
    [s EXCEPT !.bm25 = IF s.bm25_tokens # <<>> THEN Some(s.bm25_tokens) ELSE s.bm25]

\* flush(): the files after _save_json, np.save and faiss.write_index;
\* stage names how far it got: "all", or the write that failed
FlushDisk(s, d, stage) ==
    LET d1 == IF stage = "meta" THEN d ELSE [d EXCEPT !.meta = File(s.rows)]
        d2 == IF stage \in {"meta", "emb_open"} \/ s.emb.none THEN d1
              ELSE IF stage = "emb_write" THEN [d1 EXCEPT !.embf = Corrupt]
              ELSE [d1 EXCEPT !.embf = File(s.emb.m)]
        d3 == IF stage # "all" \/ s.index.none THEN d2
              ELSE [d2 EXCEPT !.idxf = File(s.index.m)]
    IN d3

FlushStages == {"meta", "emb_open", "emb_write", "index"}

(***************************************************************************)
(* Retrieval: _search_vector, _search_bm25, aquery                         *)
(***************************************************************************)
\* scores are exact fractions num/den with den > 0
Frac(n, d) == [num |-> n, den |-> d]
FracLess(a, b) == a.num * b.den < b.num * a.den
FracEq(a, b) == a.num * b.den = b.num * a.den
FracLeq(a, b) == a.num * b.den <= b.num * a.den

\* the orders in which a library may return positions 1..n by descending score
\* (equal scores in any order)
DescOrders(score, n) ==
    { p \in PermsOf(n) : \A i \in 1..n : \A j \in 1..n : i < j => score[p[i]] >= score[p[j]] }

\* faiss IndexFlatIP.search(q, k): the k best inner products, best first
FaissSearch(m, q, k) ==
    LET sc == [i \in 1..Len(m) |-> Dot(q, m[i])]
    IN { [j \in 1..Min2(k, Len(m)) |-> [idx |-> p[j], score |-> sc[p[j]]]] :
            p \in DescOrders(sc, Len(m)) }

\* _search_vector: every list it can return
SearchVector(s, q_emb, top_k) ==
    IF s.index.none \/ s.emb.none \/ Len(s.rows) = 0 THEN {<<>>}
    ELSE FaissSearch(s.index.m, Normalize(q_emb), Max2(1, top_k))

RECURSIVE CountTok(_, _)
CountTok(doc, q) ==
    IF doc = <<>> THEN 0 ELSE (IF Head(doc) = q THEN 1 ELSE 0) + CountTok(Tail(doc), q)

\* BM25Okapi(corpus).get_scores(toks): one score per document of the corpus the
\* index was built over; the weight of a match is kept, the idf and length
\* normalisation of the library are not
Bm25GetScores(corpus, toks) ==
    [i \in 1..Len(corpus) |-> SumSeq([j \in 1..Len(toks) |-> 2 * CountTok(corpus[i], toks[j])])]

\* _search_bm25 builds the index when there is none
Bm25Ensure(s) ==
    IF Len(s.rows) = 0 \/ ~s.bm25.none THEN s
    ELSE [s EXCEPT !.bm25 = IF s.bm25_tokens # <<>> THEN Some(s.bm25_tokens) ELSE None]

\* _search_bm25: every list it can return (np.argsort(-scores)[:k])
SearchBm25(s, query, top_k) ==
    IF Len(s.rows) = 0 THEN {<<>>}
    ELSE IF Bm25Ensure(s).bm25.none THEN {<<>>}
    ELSE LET corpus == Bm25Ensure(s).bm25.m
             sc == Bm25GetScores(corpus, Tokenize(query))
             k == Max2(1, top_k)
         IN { [j \in 1..Min2(k, Len(corpus)) |-> [idx |-> p[j], score |-> sc[p[j]]]] :
                 p \in DescOrders(sc, Len(corpus)) }

HasIdx(res, i) == \E j \in 1..Len(res) : res[j].idx = i
ScoreOf(res, i) == res[CHOOSE j \in 1..Len(res) : res[j].idx = i].score

RECURSIVE OnlyNew(_, _)
\* the entries of bres whose chunk is not yet a key of the candidates dict
OnlyNew(bres, vres) ==
    IF bres = <<>> THEN <<>>
    ELSE IF HasIdx(vres, Head(bres).idx) THEN OnlyNew(Tail(bres), vres)
         ELSE <<Head(bres)>> \o OnlyNew(Tail(bres), vres)

\* the candidates dict of aquery, in insertion order; a missing score reads 0.0
Candidates(vres, bres) ==
    [j \in 1..Len(vres) |->
        [idx |-> vres[j].idx, vec |-> vres[j].score,
         bm |-> IF HasIdx(bres, vres[j].idx) THEN ScoreOf(bres, vres[j].idx) ELSE 0]]
    \o
    [j \in 1..Len(OnlyNew(bres, vres)) |->
        [idx |-> OnlyNew(bres, vres)[j].idx, vec |-> 0, bm |-> OnlyNew(bres, vres)[j].score]]

\* total = 0.75*vec + 0.25*bm_norm | vec | bm_norm, with bm_norm = bm/(|bm|+8)
Total(c, mode) ==
    IF mode = "hybrid"
    THEN Frac(3 * c.vec * (AbsInt(c.bm) + 8) + UNIT * UNIT * c.bm, 4 * UNIT * UNIT * (AbsInt(c.bm) + 8))
    ELSE IF mode = "vector" THEN Frac(c.vec, UNIT * UNIT)
    ELSE Frac(c.bm, AbsInt(c.bm) + 8)

RECURSIVE InsertDesc_Unstable(_, _)
\* variant: x goes in front of the elements of equal score
InsertDesc_Unstable(x, sorted) ==
    IF sorted = <<>> THEN <<x>>
    ELSE IF FracLeq(Head(sorted).score, x.score) THEN <<x>> \o sorted
    ELSE <<Head(sorted)>> \o InsertDesc_Unstable(x, Tail(sorted))

RECURSIVE InsertDesc(_, _)
\* place x behind every element that is not smaller
InsertDesc(x, sorted) ==
    IF sorted = <<>> THEN <<x>>
    ELSE IF FracLess(Head(sorted).score, x.score) THEN <<x>> \o sorted
    ELSE <<Head(sorted)>> \o InsertDesc(x, Tail(sorted))

RECURSIVE SortDesc(_, _)
\* scored.sort(key=score, reverse=True): stable
SortDesc(todo, sorted) ==
    IF todo = <<>> THEN sorted ELSE SortDesc(Tail(todo), InsertDesc(Head(todo), sorted))

Scored(cands, mode) == [j \in 1..Len(cands) |-> [score |-> Total(cands[j], mode), idx |-> cands[j].idx, pos |-> j]]

\* top = sorted(scored)[:top_k]
TopOf(cands, mode, top_k) ==
    LET srt == SortDesc(Scored(cands, mode), <<>>)
    IN SubSeq(srt, 1, Min2(top_k, Len(srt)))

RECURSIVE Sources_NoDedup(_)
\* variant: the sources list without the "src not in sources" test
Sources_NoDedup(hs) ==
    IF hs = <<>> THEN <<>>
    ELSE LET before == Sources_NoDedup(SubSeq(hs, 1, Len(hs) - 1))
             h == hs[Len(hs)]
         IN IF h.meta.has /\ h.meta.source # ""
            THEN Append(before, h.meta.source) ELSE before

RECURSIVE Sources(_)
\* the sources list: each string source once, in order of first hit
Sources(hs) ==
    IF hs = <<>> THEN <<>>
    ELSE LET before == Sources(SubSeq(hs, 1, Len(hs) - 1))
             h == hs[Len(hs)]
         IN IF h.meta.has /\ h.meta.source # "" /\ ~(\E i \in 1..Len(before) : before[i] = h.meta.source)
            THEN Append(before, h.meta.source) ELSE before

SEP == <<"\n", "\n", "-", "-", "-", "\n", "\n">>
TRUNC_MARK == <<"\n", "\n", "[", ".", ".", ".", "c", "o", "n", "t", "e", "x", "t", " ",
                "t", "r", "u", "n", "c", "a", "t", "e", "d", ".", ".", ".", "]">>

\* the context of aquery: joined hit texts, cut at MAX_CTX_CHARS
Context(joined) ==
    IF Len(joined) > MAX_CTX_CHARS THEN SubSeq(joined, 1, MAX_CTX_CHARS) \o TRUNC_MARK ELSE joined

QModes == {"vector", "bm25", "hybrid", "other"}
QTopKs == {0, 2}

\* variant: the empty check placed after the embedding of the query
AqueryEmpty_AfterEmbed(query, mode, top_k) ==
    [status |-> "empty", mode |-> mode, top_k |-> top_k, query |-> query,
     answer |-> "Database is empty. Build the database first.",
     sources |-> <<>>, hits |-> <<>>, context |-> <<>>, joined |-> <<>>,
     vec |-> <<>>, bm |-> <<>>, cands |-> <<>>,
     embed_calls |-> IF mode \in {"vector", "hybrid"} THEN 1 ELSE 0, generate_calls |-> 0]

\* aquery on a store without rows
AqueryEmpty(query, mode, top_k) ==
    [status |-> "empty", mode |-> mode, top_k |-> top_k, query |-> query,
     answer |-> "Database is empty. Build the database first.",
     sources |-> <<>>, hits |-> <<>>, context |-> <<>>, joined |-> <<>>,
     vec |-> <<>>, bm |-> <<>>, cands |-> <<>>,
     embed_calls |-> 0, generate_calls |-> 0]

\* aquery when client.embed or client.generate raises: nothing is returned
AqueryRaised(mode, embed_ok) ==
    [AqueryEmpty(<<>>, mode, 0) EXCEPT
        !.status = "raised", !.answer = "",
        !.embed_calls = IF mode \in {"vector", "hybrid"} THEN 1 ELSE 0,
        !.generate_calls = IF embed_ok THEN 1 ELSE 0]

\* aquery past the searches: vres and bres are what they returned
AqueryHits(s, query, mode, top_k0, vres, bres) ==
    LET top_k == Max2(1, top_k0)
        cands == Candidates(vres, bres)
        top == TopOf(cands, mode, top_k)
        hits == [j \in 1..Len(top) |->
                    [score |-> top[j].score, text |-> s.rows[top[j].idx].text,
                     meta |-> s.rows[top[j].idx].meta, idx |-> top[j].idx, pos |-> top[j].pos]]
        joined == JoinSeq([j \in 1..Len(hits) |-> hits[j].text], SEP)
    IN [status |-> "ok", mode |-> mode, top_k |-> top_k0, query |-> query,
        answer |-> "generated",
        sources |-> Sources(hits),
        hits |-> hits,
        context |-> Context(joined), joined |-> joined,
        vec |-> vres, bm |-> bres, cands |-> cands,
        embed_calls |-> IF mode \in {"vector", "hybrid"} THEN 1 ELSE 0,
        generate_calls |-> 1]

(***************************************************************************)
(* Graph engine: lightrag.LightRAG over a networkx Graph and a Chroma db   *)
(***************************************************************************)
S_Entity == <<"E", "n", "t", "i", "t", "y", ":", " ">>
S_Type == <<".", " ", "T", "y", "p", "e", ":", " ">>
S_Desc == <<".", " ", "D", "e", "s", "c", "r", "i", "p", "t", "i", "o", "n", ":", " ">>
S_RelBetween == <<"R", "e", "l", "a", "t", "i", "o", "n", "s", "h", "i", "p", " ", "b", "e", "t", "w", "e", "e", "n", " ">>
S_And == <<" ", "a", "n", "d", " ">>
S_Keywords == <<".", " ", "K", "e", "y", "w", "o", "r", "d", "s", ":", " ">>
S_RelatedEntity == <<"R", "e", "l", "a", "t", "e", "d", " ", "E", "n", "t", "i", "t", "y", ":", " ">>
S_Connection == <<".", " ", "C", "o", "n", "n", "e", "c", "t", "i", "o", "n", ":", " ">>
S_None == <<"N", "o", "n", "e">>
GEO == <<"g", "e", "o">>
PERSON == <<"p", "e", "r", "s", "o", "n">>

NA == <<"A">>
NB == <<"B">>
NAB == <<"A", "-", "B">>
DX == <<"x">>
DY == <<"y">>
KK == <<"k">>
KW == <<"w">>

\* the fragments of an extraction output, each already split at "|"
EntityItems == {<<"entity", NA, PERSON, DX>>, <<"entity", NA, GEO, DY>>, <<"entity", NB, GEO, DX>>}
RelItems == {<<"relationship", NA, NB, DX, KK>>, <<"relationship", NB, NA, DY, KW>>,
             <<"relationship", NAB, NB, DX, KK>>}
BadItems == {<<"entity", NA, PERSON>>, <<"relationship", NA, NB, DX>>}
Items == EntityItems \cup RelItems \cup BadItems

\* nx.Graph(): nodes in insertion order with their attribute dicts, edges
\* keyed by the unordered pair of their endpoints
EmptyGraph == [order |-> <<>>, nodes |-> <<>>, edges |-> <<>>]
\* a node add_edge created: no 'type', no 'description'
BareAttrs == [has |-> FALSE, type |-> <<>>, description |-> <<>>]

HasNode(g, n) == n \in DOMAIN g.nodes
HasEdge(g, u, v) == {u, v} \in DOMAIN g.edges

\* graph_db.add_node(name, type=, description=) for a new name
AddNode(g, n, attrs) ==
    IF HasNode(g, n) THEN [g EXCEPT !.nodes[n] = attrs]
    ELSE [g EXCEPT !.order = Append(g.order, n), !.nodes = (n :> attrs) @@ g.nodes]

\* graph_db.add_edge(src, tgt, description=, keywords=): creates missing endpoints
AddEdge(g, u, v, desc, kw) ==
    LET g1 == IF HasNode(g, u) THEN g ELSE AddNode(g, u, BareAttrs)
        g2 == IF HasNode(g1, v) THEN g1 ELSE AddNode(g1, v, BareAttrs)
    IN [g2 EXCEPT !.edges = ({u, v} :> [src |-> u, tgt |-> v, description |-> desc, keywords |-> kw])
                             @@ g2.edges]

\* variant: a repeated entity replaces the description
ParseEntity_Overwrite(g, name, e_type, desc) ==
    IF HasNode(g, name)
    THEN IF g.nodes[name].has
         THEN [g |-> [g EXCEPT !.nodes[name].description = desc], raised |-> FALSE]
         ELSE [g |-> g, raised |-> TRUE]
    ELSE [g |-> AddNode(g, name, [has |-> TRUE, type |-> e_type, description |-> desc]),
          raised |-> FALSE]

\* variant: every entity record adds a node, without the has_node test
ParseEntity_NoDedup(g, name, e_type, desc) ==
    [g |-> [g EXCEPT !.order = Append(@, name),
                     !.nodes = (name :> [has |-> TRUE, type |-> e_type, description |-> desc]) @@ @],
     raised |-> FALSE]

\* the entity branch of _parse_and_insert_graph_data
ParseEntity(g, name, e_type, desc) ==
    IF HasNode(g, name)
    THEN IF g.nodes[name].has
         THEN [g |-> [g EXCEPT !.nodes[name].description = @ \o <<" ">> \o desc], raised |-> FALSE]
         ELSE [g |-> g, raised |-> TRUE]
    ELSE [g |-> AddNode(g, name, [has |-> TRUE, type |-> e_type, description |-> desc]),
          raised |-> FALSE]

\* variant: has_edge of a directed graph, so the reverse order adds the edge anew
ParseRelationship_Directed(g, src, tgt, desc, keywords) ==
    IF HasEdge(g, src, tgt) /\ g.edges[{src, tgt}].src = src
    THEN [g |-> [g EXCEPT !.edges[{src, tgt}].description = @ \o <<" ">> \o desc], raised |-> FALSE]
    ELSE [g |-> AddEdge(g, src, tgt, desc, keywords), raised |-> FALSE]

\* the relationship branch of _parse_and_insert_graph_data
ParseRelationship(g, src, tgt, desc, keywords) ==
    IF HasEdge(g, src, tgt)
    THEN [g |-> [g EXCEPT !.edges[{src, tgt}].description = @ \o <<" ">> \o desc], raised |-> FALSE]
    ELSE [g |-> AddEdge(g, src, tgt, desc, keywords), raised |-> FALSE]

\* one fragment of the output
ParseItem(g, parts) ==
    IF Len(parts) > 0 /\ parts[1] = "entity" /\ Len(parts) = 4
    THEN ParseEntity(g, parts[2], parts[3], parts[4])
    ELSE IF Len(parts) > 0 /\ parts[1] = "relationship" /\ Len(parts) = 5
    THEN ParseRelationship(g, parts[2], parts[3], parts[4], parts[5])
    ELSE [g |-> g, raised |-> FALSE]

RECURSIVE ParseAndInsertGraphData(_, _)
\* _parse_and_insert_graph_data: the fragments in order; an exception ends it
\* with the earlier fragments applied
\* (done counts the fragments handled before it)
ParseAndInsertGraphData(g, items) ==
    IF items = <<>> THEN [g |-> g, raised |-> FALSE, done |-> 0]
    ELSE LET r == ParseItem(g, Head(items))
         IN IF r.raised THEN [g |-> r.g, raised |-> TRUE, done |-> 0]
            ELSE [ParseAndInsertGraphData(r.g, Tail(items)) EXCEPT !.done = @ + 1]

Pos(g, n) == CHOOSE i \in 1..Len(g.order) : g.order[i] = n

\* graph_db.edges(): each edge once, reported from its endpoint that is the
\* earlier node (the order among the edges is not kept)
EdgePairs(g) ==
    LET n == Len(g.order)
        all == [k \in 1..(n * n) |-> <<g.order[((k - 1) \div n) + 1], g.order[((k - 1) % n) + 1]>>]
    IN SelectSeq(all, LAMBDA pr : Pos(g, pr[1]) <= Pos(g, pr[2]) /\ HasEdge(g, pr[1], pr[2]))

\* str(data.get(attr)) in an f-string: a missing attribute prints as None
AttrStr(attrs, v) == IF attrs.has THEN v ELSE S_None

NodeDoc(g, n) ==
    [page_content |-> S_Entity \o n \o S_Type \o AttrStr(g.nodes[n], g.nodes[n].type)
                      \o S_Desc \o AttrStr(g.nodes[n], g.nodes[n].description),
     type |-> "entity", key |-> n]

EdgeDoc(g, u, v) ==
    [page_content |-> S_RelBetween \o u \o S_And \o v \o S_Keywords \o g.edges[{u, v}].keywords
                      \o S_Desc \o g.edges[{u, v}].description,
     type |-> "relation", key |-> u \o <<"-">> \o v]

\* the texts and metadatas _profile_and_embed_graph hands to add_texts
ProfileDocs(g) ==
    [i \in 1..Len(g.order) |-> NodeDoc(g, g.order[i])]
    \o [i \in 1..Len(EdgePairs(g)) |-> EdgeDoc(g, EdgePairs(g)[i][1], EdgePairs(g)[i][2])]

\* nx.write_graphml: node and edge elements with their data
WriteGraphml(g) ==
    [nodes |-> [i \in 1..Len(g.order) |-> [id |-> g.order[i], data |-> g.nodes[g.order[i]]]],
     edges |-> [i \in 1..Len(EdgePairs(g)) |->
                  [source |-> EdgePairs(g)[i][1], target |-> EdgePairs(g)[i][2],
                   description |-> g.edges[{EdgePairs(g)[i][1], EdgePairs(g)[i][2]}].description,
                   keywords |-> g.edges[{EdgePairs(g)[i][1], EdgePairs(g)[i][2]}].keywords]]]

RECURSIVE ReadNodes(_, _)
ReadNodes(g, ns) ==
    IF ns = <<>> THEN g ELSE ReadNodes(AddNode(g, Head(ns).id, Head(ns).data), Tail(ns))

RECURSIVE ReadEdges(_, _)
ReadEdges(g, es) ==
    IF es = <<>> THEN g
    ELSE ReadEdges(AddEdge(g, Head(es).source, Head(es).target, Head(es).description, Head(es).keywords),
                   Tail(es))

\* nx.read_graphml
ReadGraphml(f) == ReadEdges(ReadNodes(EmptyGraph, f.nodes), f.edges)

\* CHROMA_DIR: the Chroma collection and lightrag.graphml
NoDir == [exists |-> FALSE, docs |-> <<>>, graphml |-> None]
FreshDir == [exists |-> TRUE, docs |-> <<>>, graphml |-> None]

(***************************************************************************)
(* Keyword extraction and retrieval of the graph engine                    *)
(***************************************************************************)
GQuery == <<"q">>
HK == <<"h">>
LK == <<"l">>

\* what the model may answer to the keyword prompt: a body, bare or inside a
\* ```json fence
KwBodies == {"prose", "object2", "object_hl", "object_empty", "list", "string", "null"}
Completions == [fence : BOOLEAN, body : KwBodies]

\* content.replace("```json", "").replace("```", "").strip()
StripFences(c) == [c EXCEPT !.fence = FALSE]

KwObject(has_hl, hl, has_ll, ll) ==
    [kind |-> "object", has_hl |-> has_hl, hl |-> hl, has_ll |-> has_ll, ll |-> ll]
KwOther(kind) == [kind |-> kind, has_hl |-> FALSE, hl |-> <<>>, has_ll |-> FALSE, ll |-> <<>>]

\* json.loads: the value, or JSONDecodeError
JsonLoads(c) ==
    IF c.fence \/ c.body = "prose" THEN [ok |-> FALSE, value |-> KwOther("null")]
    ELSE IF c.body = "object2" THEN [ok |-> TRUE, value |-> KwObject(TRUE, <<HK>>, TRUE, <<LK>>)]
    ELSE IF c.body = "object_hl" THEN [ok |-> TRUE, value |-> KwObject(TRUE, <<HK>>, FALSE, <<>>)]
    ELSE IF c.body = "object_empty" THEN [ok |-> TRUE, value |-> KwObject(FALSE, <<>>, FALSE, <<>>)]
    ELSE [ok |-> TRUE, value |-> KwOther(c.body)]

\* {"high_level_keywords": [query], "low_level_keywords": []}
KwFallback(query) == KwObject(TRUE, <<query>>, TRUE, <<>>)

\* _extract_query_keywords on the completion c
ExtractQueryKeywords(query, c) ==
    IF JsonLoads(StripFences(c)).ok THEN JsonLoads(StripFences(c)).value ELSE KwFallback(query)

\* vector_db.similarity_search(key, k): the positions of the k nearest documents
SimilaritySearch(db, k) == { S \in SUBSET (1..Len(db)) : Cardinality(S) = Min2(k, Len(db)) }

RECURSIVE IndexOfDash(_, _)
IndexOfDash(key, i) ==
    IF i > Len(key) THEN 0 ELSE IF key[i] = "-" THEN i ELSE IndexOfDash(key, i + 1)

\* key.split("-", 1) of a relation key
SplitKey(key) ==
    LET i == IndexOfDash(key, 1)
    IN <<SubSeq(key, 1, i - 1), SubSeq(key, i + 1, Len(key))>>

Neighbors(g, n) == { m \in DOMAIN g.nodes : HasEdge(g, n, m) }

RECURSIVE SumLen(_)
SumLen(S) == IF S = {} THEN 0 ELSE LET x == CHOOSE y \in S : TRUE IN Len(x) + SumLen(S \ {x})

\* len("\n".join(parts)) for the set of parts
JoinedLen(S) == IF S = {} THEN 0 ELSE SumLen(S) + Cardinality(S) - 1

\* rag_system: none yet; force and prior describe the InitializeDatabase call
\* that produced it
NoEngine == [ready |-> FALSE, outcome |-> "none", force |-> FALSE, prior |-> FALSE]

NoRetrieve == [status |-> "none", completion |-> "", keywords |-> KwOther("null"),
               nodes |-> {}, docs |-> {}, texts |-> {}, ctx_len |-> 0]

\* retrieve() once the keyword dict is read: found holds the documents the
\* searches returned
RetrieveContext(g, db, kw, found) ==
    LET retrieved_texts == { db[i].page_content : i \in found }
        retrieved_nodes ==
            { db[i].key : i \in { j \in found : db[j].type = "entity" } }
            \cup UNION { {SplitKey(db[i].key)[1], SplitKey(db[i].key)[2]} :
                            i \in { j \in found : db[j].type = "relation" } }
        neighbor_texts ==
            UNION { { S_RelatedEntity \o m \o S_Connection \o g.edges[{n, m}].description :
                        m \in Neighbors(g, n) } :
                    n \in { x \in retrieved_nodes : HasNode(g, x) } }
    IN [status |-> "ok", completion |-> "", keywords |-> kw, nodes |-> retrieved_nodes,
        docs |-> found, texts |-> retrieved_texts \cup neighbor_texts,
        ctx_len |-> JoinedLen(retrieved_texts \cup neighbor_texts)]

\* keywords.get(...) on a value that is no dict raises AttributeError
RetrieveRaised(kw) == [NoRetrieve EXCEPT !.status = "raised", !.keywords = kw]

(***************************************************************************)
(* Spec: one store instance over its working directory                     *)
(***************************************************************************)
NoQuery == [status |-> "none", mode |-> "", top_k |-> 0, query |-> <<>>,
            answer |-> "", sources |-> <<>>, hits |-> <<>>,
            context |-> <<>>, joined |-> <<>>, vec |-> <<>>, bm |-> <<>>, cands |-> <<>>,
            embed_calls |-> 0, generate_calls |-> 0]

\* no engine yet, CHROMA_DIR absent
GraphInit ==
    /\ gpc = "idle"
    /\ graph_db = EmptyGraph
    /\ chroma = NoDir
    /\ fed = <<>>
    /\ chunks_left = 0
    /\ ginfo = NoEngine
    /\ gres = NoRetrieve

\* no build_database request yet
\* (prior: the directory held rows with their embeddings when the request
\* began; flush_raised: the flush of the request raised)
NoBuild == [pc |-> "idle", outcome |-> "none", force |-> FALSE, prior |-> FALSE,
            input |-> <<>>, inserted_chunks |-> 0, flush_raised |-> FALSE]

\* the build_database requests in flight in SpecConc, each with the instance
\* it constructed; a request not in flight holds nothing
\* nothing in flight, nothing constructed, no documents, no run, no code
Callers == {"c1", "c2"}
\* an ainsert call: at rest, or suspended in await self.client.embed(text);
\* outcome is how its latest run ended, overlap whether another call was
\* suspended during it
NoCall == [pc |-> "idle", text |-> <<>>, meta |-> [has |-> FALSE, source |-> ""],
           outcome |-> "none", overlap |-> FALSE]
NoCalls == [c \in Callers |-> NoCall]
Tasks == {"t1", "t2", "t3"}
\* a request of simulator_api.py: op is its endpoint, pc its position, res what
\* its get_rag returned (0: nothing yet, -1: it raised, else the instance), ep
\* the number of resets before that return
NoTask == [pc |-> "idle", op |-> "none", res |-> 0, ep |-> 0]
\* _rag = None (0), _lock free, nothing constructed
NoSrv == [rag |-> 0, lock |-> "free", made |-> 0, epoch |-> 0, next |-> 1,
          task |-> [t \in Tasks |-> NoTask]]
\* the users of the documents endpoints with the role of their token
Users == {"adm", "ta1", "ta2", "stu"}
Role(u) == IF u = "adm" THEN "admin" ELSE IF u = "stu" THEN "student" ELSE "ta"
\* DOCUMENTS_DIR: the root "" and two folders, with one file name, a, in each
Dirs == {"", "d", "e"}
\* the documents tree (files[dir]: who wrote the file dir/a last, "none" when
\* there is no such file), the doc_owners table keyed by path (owners[dir]: the
\* owner_email of dir/a), and the request answered last
NoDocReq == [user |-> "none", op |-> "none", status |-> 0]
NoFs == [files |-> [d \in Dirs |-> "none"], dirs |-> {""}, owners |-> [d \in Dirs |-> "none"],
         req |-> NoDocReq]
\* no run of _chunk_text
NoCk == [pc |-> "idle", raw |-> <<>>, text |-> <<>>, n |-> 0, i |-> 0, max_chars |-> 0, overlap |-> 0,
         chunks |-> <<>>, windows |-> <<>>]
\* the one-time-code store for one email: no record. now is the clock in
\* seconds; issued, issued_exp, compared and tokens tell of the code issued
\* last: the code, its expiry, the guesses compared with it, the tokens minted
\* for it; res is the verify request answered last
NoOtpRec == [none |-> TRUE, otp_hash |-> "", expires |-> 0, attempts |-> 0]
NoVerify == [status |-> 0, guess |-> "", at |-> 0, had |-> FALSE]
NoOtp == [now |-> 0, rec |-> NoOtpRec, issued |-> "none", issued_exp |-> 0,
          compared |-> 0, tokens |-> 0, res |-> NoVerify]
AuxInit == calls = NoCalls /\ srv = NoSrv /\ fs = NoFs /\ ck = NoCk /\ otp = NoOtp

Builders == {"b1", "b2"}
NoReq == [pc |-> "idle", rag |-> LoadStore(EmptyDisk), force |-> FALSE, input |-> <<>>,
          inserted_chunks |-> 0]
NoReqs == [w \in Builders |-> NoReq]

StoreInit ==
    /\ AuxInit
    /\ reqs = NoReqs
    /\ disk = EmptyDisk
    /\ rag = LoadStore(EmptyDisk)
    /\ last = "load"
    /\ qres = NoQuery
    /\ build = NoBuild

\* the backend in use: "local" is database_api.py over lightrag_local.py,
\* "bridge" is database_bridge.py over lightrag.py and Chroma
Init == StoreInit /\ GraphInit /\ deployment = "local"

\* no request is being answered
Idle == qres.status = "none"

\* LightRAG(working_dir, ...): a new instance over the files as they are
Load ==
    /\ Idle
    /\ rag' = LoadStore(disk)
    /\ last' = "load"
    /\ qres' = NoQuery
    /\ UNCHANGED disk
    /\ UNCHANGED <<build, graphVars, deployment, reqs, auxVars>>

\* await rag.ainsert(text, meta) with the embedding call answered
AinsertOf(ins) ==
    /\ Idle
    /\ Len(rag.rows) < MaxRows
    /\ \E in \in ins :
          rag' = AinsertMem(rag, in.text, in.meta, EmbedOf(in.text))
    /\ last' = "ainsert"
    /\ qres' = NoQuery
    /\ UNCHANGED disk
    /\ UNCHANGED <<build, graphVars, deployment, reqs, auxVars>>

Ainsert == AinsertOf(Inputs)

\* client.embed raises: ainsert ends before it touches the store
AinsertFail ==
    /\ Idle
    /\ last' = "ainsert_raised"
    /\ qres' = NoQuery
    /\ UNCHANGED <<rag, disk>>
    /\ UNCHANGED <<build, graphVars, deployment, reqs, auxVars>>

Flush ==
    /\ Idle
    /\ rag' = FlushMem(rag)
    /\ disk' = FlushDisk(rag, disk, "all")
    /\ last' = "flush"
    /\ qres' = NoQuery
    /\ UNCHANGED <<build, graphVars, deployment, reqs, auxVars>>

\* a write of flush() raises (disk full, permission denied)
FlushFail ==
    /\ Idle
    /\ \E stage \in FlushStages :
          /\ stage \in {"emb_open", "emb_write"} => ~rag.emb.none
          /\ stage = "index" => ~rag.index.none
          /\ disk' = FlushDisk(rag, disk, stage)
    /\ rag' = FlushMem(rag)
    /\ last' = "flush_raised"
    /\ qres' = NoQuery
    /\ UNCHANGED <<build, graphVars, deployment, reqs, auxVars>>

Reset ==
    /\ Idle
    /\ rag' = ResetMem(rag)
    /\ disk' = ResetDisk(disk)
    /\ last' = IF Len(rag.rows) > 0 /\ disk.meta.exists THEN "reset" ELSE "reset_fresh"
    /\ qres' = NoQuery
    /\ UNCHANGED <<build, graphVars, deployment, reqs, auxVars>>

Next == Load \/ Ainsert \/ AinsertFail \/ Flush \/ FlushFail \/ Reset

Spec == Init /\ [][Next]_vars

(***************************************************************************)
(* SpecQuery: the same store, with queries                                 *)
(***************************************************************************)
QInputs == {[text |-> T1, meta |-> [has |-> TRUE, source |-> "f1"]],
            [text |-> T2, meta |-> [has |-> TRUE, source |-> "f2"]],
            [text |-> T3, meta |-> [has |-> FALSE, source |-> ""]]}

\* rows as ainsert leaves them in meta.json: the id is the 0-based position
RowsOf(ins) == [i \in 1..Len(ins) |-> [id |-> i - 1, text |-> ins[i].text, meta |-> ins[i].meta]]
EmbsOf(ins) == [i \in 1..Len(ins) |-> Normalize(EmbedOf(ins[i].text))]

\* most rows of a working directory a query instance is constructed over
MaxDiskRows == 2

SeqsUpTo(S, n) == UNION { [1..k -> S] : k \in 0..n }

\* working directories as flush() leaves them: both files written, or meta.json
\* written and embeddings.npy not (the write failed or has not happened yet)
QDisks ==
    { [meta |-> File(RowsOf(ins)), embf |-> e, idxf |-> NoFile] :
         ins \in SeqsUpTo(QInputs, MaxDiskRows), e \in {NoFile, Corrupt} }
    \cup
    { [meta |-> File(RowsOf(ins)), embf |-> File(EmbsOf(ins)), idxf |-> File(EmbsOf(ins))] :
         ins \in SeqsUpTo(QInputs, MaxDiskRows) }
    \cup {EmptyDisk}

\* database_chat constructs its instance over the directory as it finds it
QInit ==
    /\ AuxInit
    /\ reqs = NoReqs
    /\ disk \in QDisks
    /\ rag = LoadStore(disk)
    /\ last = "load"
    /\ qres = NoQuery
    /\ build = NoBuild
    /\ GraphInit
    /\ deployment = "local"

QAinsert == AinsertOf(QInputs)

UsesVec(mode) == mode \in {"vector", "hybrid"}
UsesBm25(mode) == mode \in {"bm25", "hybrid"}

\* await rag.aquery(query, QueryParam(mode, top_k)), both services answering
AqueryOf(queries, modes, top_ks) ==
    /\ Idle
    /\ \E query \in queries, mode \in modes, top_k \in top_ks :
          IF Len(rag.rows) = 0
          THEN qres' = AqueryEmpty(query, mode, top_k) /\ rag' = rag
          ELSE \E vres \in (IF UsesVec(mode)
                            THEN SearchVector(rag, EmbedOf(query), Max2(1, top_k) * 2)
                            ELSE {<<>>}) :
               \E bres \in (IF UsesBm25(mode)
                            THEN SearchBm25(rag, query, Max2(1, top_k) * 2)
                            ELSE {<<>>}) :
                  /\ qres' = AqueryHits(rag, query, mode, top_k, vres, bres)
                  /\ rag' = IF UsesBm25(mode) THEN Bm25Ensure(rag) ELSE rag
    /\ last' = "aquery"
    /\ UNCHANGED disk
    /\ UNCHANGED <<build, graphVars, deployment, reqs, auxVars>>

Aquery == AqueryOf(Queries, QModes, QTopKs)

\* aquery on a store with rows when client.embed raises (embed_ok = FALSE) or
\* client.generate raises: the exception leaves aquery
AqueryRaise ==
    /\ Idle
    /\ Len(rag.rows) > 0
    /\ \E mode \in QModes, embed_ok \in BOOLEAN :
          /\ ~embed_ok => UsesVec(mode)
          /\ qres' = AqueryRaised(mode, embed_ok)
          /\ rag' = IF embed_ok /\ UsesBm25(mode) THEN Bm25Ensure(rag) ELSE rag
    /\ last' = "aquery"
    /\ UNCHANGED disk
    /\ UNCHANGED <<build, graphVars, deployment, reqs, auxVars>>

\* the handler returns the response (or the exception) to its caller
AqueryReturn ==
    /\ ~Idle
    /\ qres' = NoQuery
    /\ UNCHANGED <<rag, disk, last>>
    /\ UNCHANGED <<build, graphVars, deployment, reqs, auxVars>>

QNext == QAinsert \/ Aquery \/ AqueryRaise \/ AqueryReturn

SpecQuery == QInit /\ [][QNext]_vars

(***************************************************************************)
(* SpecStore: load, ainsert, flush, reset and queries on one instance      *)
(***************************************************************************)
\* the chunks inserted and the queries asked here
StInputs == {[text |-> T1, meta |-> [has |-> TRUE, source |-> "f1"]],
             [text |-> T3, meta |-> [has |-> FALSE, source |-> ""]]}
StAinsert == AinsertOf(StInputs)
StAquery == AqueryOf({Q1, Q2}, {"hybrid"}, {2})

StNext ==
    \/ Load \/ StAinsert \/ AinsertFail \/ Flush \/ FlushFail \/ Reset
    \/ StAquery \/ AqueryRaise \/ AqueryReturn

SpecStore == Init /\ [][StNext]_vars

(***************************************************************************)
(* SpecGraph: InitializeDatabase, build_index, generate                    *)
(***************************************************************************)
GIdle == gpc = "idle" /\ gres.status = "none"

DirHoldsData(d) == d.exists /\ (d.docs # <<>> \/ ~d.graphml.none)

\* if force_rebuild and os.path.exists(CHROMA_DIR): shutil.rmtree(CHROMA_DIR)
RmTree(dir, force_rebuild) == IF force_rebuild /\ dir.exists THEN NoDir ELSE dir

\* InitializeDatabase(docs_path, force_rebuild) up to the call of build_index;
\* nchunks = 0 stands for a docs_path without loadable documents
InitializeDatabase ==
    /\ deployment = "bridge"
    /\ GIdle
    /\ \E force_rebuild \in BOOLEAN, nchunks \in 0..MaxChunks :
          LET dir == RmTree(chroma, force_rebuild)
          IN IF ~dir.exists
             THEN /\ chroma' = FreshDir
                  /\ graph_db' = EmptyGraph
                  /\ fed' = <<>>
                  /\ chunks_left' = nchunks
                  /\ gpc' = IF nchunks = 0 THEN "idle" ELSE "building"
                  /\ ginfo' = [ready |-> FALSE, outcome |-> IF nchunks = 0 THEN "nodocs" ELSE "building",
                               force |-> force_rebuild, prior |-> DirHoldsData(chroma)]
             ELSE /\ chroma' = chroma
                  /\ graph_db' = IF chroma.graphml.none THEN EmptyGraph ELSE ReadGraphml(chroma.graphml.m)
                  /\ fed' = <<>>
                  /\ chunks_left' = 0
                  /\ gpc' = "idle"
                  /\ ginfo' = [ready |-> TRUE, outcome |-> "loaded", force |-> force_rebuild,
                               prior |-> DirHoldsData(chroma)]
    /\ gres' = NoRetrieve
    /\ UNCHANGED <<storeVars, deployment, reqs, auxVars>>

\* one turn of the loop of build_index: the extraction output of a chunk is
\* parsed into the graph; an exception leaves InitializeDatabase
BuildChunk ==
    /\ gpc = "building"
    /\ chunks_left > 0
    /\ \E items \in SeqsUpTo(Items, MaxItems) :
          LET r == ParseAndInsertGraphData(graph_db, items)
          IN /\ Len(fed) + Len(items) <= MaxFed
             /\ graph_db' = r.g
             /\ fed' = fed \o SubSeq(items, 1, r.done)
             /\ IF r.raised
                THEN /\ gpc' = "idle"
                     /\ chunks_left' = 0
                     /\ ginfo' = [ginfo EXCEPT !.outcome = "parse_raised"]
                ELSE /\ gpc' = gpc
                     /\ chunks_left' = chunks_left - 1
                     /\ ginfo' = ginfo
    /\ UNCHANGED <<chroma, gres>>
    /\ UNCHANGED <<storeVars, deployment, reqs, auxVars>>

\* self.llm.invoke raises in _extract_entities_and_relations: the exception
\* leaves build_index and InitializeDatabase; nothing is profiled or written
BuildChunkFail ==
    /\ gpc = "building"
    /\ chunks_left > 0
    /\ gpc' = "idle"
    /\ chunks_left' = 0
    /\ ginfo' = [ginfo EXCEPT !.outcome = "extract_raised"]
    /\ UNCHANGED <<graph_db, fed, chroma, gres>>
    /\ UNCHANGED <<storeVars, deployment, reqs, auxVars>>

\* the end of build_index (_profile_and_embed_graph) and nx.write_graphml
FinishBuild ==
    /\ gpc = "building"
    /\ chunks_left = 0
    /\ chroma' = [exists |-> TRUE, docs |-> chroma.docs \o ProfileDocs(graph_db),
                  graphml |-> Some(WriteGraphml(graph_db))]
    /\ gpc' = "idle"
    /\ ginfo' = [ginfo EXCEPT !.ready = TRUE, !.outcome = "built"]
    /\ UNCHANGED <<graph_db, fed, chunks_left, gres>>
    /\ UNCHANGED <<storeVars, deployment, reqs, auxVars>>

\* generate(query): retrieve() with the completion c answering the keyword
\* prompt, then the answer prompt
Generate ==
    /\ GIdle
    /\ ginfo.ready
    /\ \E c \in Completions :
          LET kw == ExtractQueryKeywords(GQuery, c)
          IN IF kw.kind # "object"
             THEN gres' = [RetrieveRaised(kw) EXCEPT !.completion = c.body]
             ELSE \E picks \in [1..Len(kw.ll \o kw.hl) -> SimilaritySearch(chroma.docs, 2)] :
                     gres' = [RetrieveContext(graph_db, chroma.docs, kw,
                                              UNION { picks[i] : i \in 1..Len(kw.ll \o kw.hl) })
                              EXCEPT !.completion = c.body]
    /\ UNCHANGED <<gpc, graph_db, chroma, fed, chunks_left, ginfo>>
    /\ UNCHANGED <<storeVars, deployment, reqs, auxVars>>

\* generate returns (or its exception reaches the caller)
GenerateReturn ==
    /\ gpc = "idle"
    /\ gres.status # "none"
    /\ gres' = NoRetrieve
    /\ UNCHANGED <<gpc, graph_db, chroma, fed, chunks_left, ginfo>>
    /\ UNCHANGED <<storeVars, deployment, reqs, auxVars>>

GNext ==
    \/ InitializeDatabase \/ BuildChunk \/ BuildChunkFail \/ FinishBuild
    \/ Generate \/ GenerateReturn

GInit == StoreInit /\ GraphInit /\ deployment = "bridge"

SpecGraph == GInit /\ [][GNext]_vars

(***************************************************************************)
(* SpecBuild: the build endpoints of both backends                         *)
(***************************************************************************)
\* the chunk lists a build_database request can find in its folders
BuildInputs == { ins \in SeqsUpTo(Inputs, MaxRows) : ins # <<>> }

\* build_database up to its first await: construct, reset if forced
BuildDatabaseStart ==
    /\ deployment = "local"
    /\ build.pc = "idle"
    /\ \E force \in BOOLEAN, input \in BuildInputs :
          LET loaded == LoadStore(disk)
          IN /\ Len(loaded.rows) + Len(input) <= MaxRows \/ force
             /\ rag' = IF force THEN ResetMem(loaded) ELSE loaded
             /\ disk' = IF force THEN ResetDisk(disk) ELSE disk
             /\ build' = [pc |-> "inserting", outcome |-> "running", force |-> force,
                          prior |-> Len(loaded.rows) > 0 /\ ~loaded.emb.none,
                          input |-> input, inserted_chunks |-> 0, flush_raised |-> FALSE]
    /\ last' = "build"
    /\ UNCHANGED <<qres, graphVars, deployment, reqs, auxVars>>

\* build_database that resets and then finds a folder missing or nothing to
\* index: HTTP 400
BuildDatabaseReject ==
    /\ deployment = "local"
    /\ build.pc = "idle"
    /\ \E force \in BOOLEAN :
          /\ rag' = IF force THEN ResetMem(LoadStore(disk)) ELSE LoadStore(disk)
          /\ disk' = IF force THEN ResetDisk(disk) ELSE disk
          /\ build' = [NoBuild EXCEPT !.outcome = "rejected", !.force = force,
                                      !.prior = Len(LoadStore(disk).rows) > 0
                                                /\ ~LoadStore(disk).emb.none]
    /\ last' = "build"
    /\ UNCHANGED <<qres, graphVars, deployment, reqs, auxVars>>

\* await rag.ainsert(c, meta={"source": rel_source}); inserted_chunks += 1
BuildInsert ==
    /\ build.pc = "inserting"
    /\ build.inserted_chunks < Len(build.input)
    /\ LET in == build.input[build.inserted_chunks + 1]
       IN rag' = AinsertMem(rag, in.text, in.meta, EmbedOf(in.text))
    /\ build' = [build EXCEPT !.inserted_chunks = @ + 1]
    /\ last' = "ainsert"
    /\ UNCHANGED <<disk, qres, graphVars, deployment, reqs, auxVars>>

\* the embedding call of an ainsert raises: the request ends with the exception
BuildInsertFail ==
    /\ build.pc = "inserting"
    /\ build.inserted_chunks < Len(build.input)
    /\ build' = [build EXCEPT !.pc = "idle", !.outcome = "failed"]
    /\ last' = "ainsert_raised"
    /\ UNCHANGED <<rag, disk, qres, graphVars, deployment, reqs, auxVars>>

\* after the loop: rag.flush() and the response
BuildFinish ==
    /\ build.pc = "inserting"
    /\ build.inserted_chunks = Len(build.input)
    /\ rag' = FlushMem(rag)
    /\ disk' = FlushDisk(rag, disk, "all")
    /\ build' = [build EXCEPT !.pc = "idle", !.outcome = "built"]
    /\ last' = "flush"
    /\ UNCHANGED <<qres, graphVars, deployment, reqs, auxVars>>

BInit == StoreInit /\ GraphInit /\ deployment \in {"local", "bridge"}

BNext ==
    \/ BuildDatabaseStart \/ BuildDatabaseReject \/ BuildInsert \/ BuildInsertFail \/ BuildFinish
    \/ InitializeDatabase \/ BuildChunk \/ BuildChunkFail \/ FinishBuild

SpecBuild == BInit /\ [][BNext]_vars

(***************************************************************************)
(* SpecFault: build_database with failing services and failing writes      *)
(***************************************************************************)
\* after the loop, rag.flush() raises at one of its writes; build_database
\* catches the exception, passes, and returns its ok response
BuildFinishFail ==
    /\ build.pc = "inserting"
    /\ build.inserted_chunks = Len(build.input)
    /\ \E stage \in FlushStages :
          /\ stage \in {"emb_open", "emb_write"} => ~rag.emb.none
          /\ stage = "index" => ~rag.index.none
          /\ disk' = FlushDisk(rag, disk, stage)
    /\ rag' = FlushMem(rag)
    /\ build' = [build EXCEPT !.pc = "idle", !.outcome = "built", !.flush_raised = TRUE]
    /\ last' = "flush_raised"
    /\ UNCHANGED <<qres, graphVars, deployment, reqs, auxVars>>

FInit == StoreInit /\ GraphInit /\ deployment = "local"

FNext ==
    \/ BuildDatabaseStart \/ BuildDatabaseReject \/ BuildInsert \/ BuildInsertFail
    \/ BuildFinish \/ BuildFinishFail

SpecFault == FInit /\ [][FNext]_vars

(***************************************************************************)
(* SpecConc: build_database requests and database_chat over one directory  *)
(***************************************************************************)
\* the chunk lists of the build requests, and the directories they find
ConcInputs == { <<[text |-> T1, meta |-> [has |-> TRUE, source |-> "f1"]]>>,
                <<[text |-> T3, meta |-> [has |-> FALSE, source |-> ""]],
                  [text |-> T1, meta |-> [has |-> TRUE, source |-> "f1"]]>> }
ConcDisks ==
    { EmptyDisk,
      [meta |-> File(RowsOf(<<[text |-> T2, meta |-> [has |-> TRUE, source |-> "f1"]]>>)),
       embf |-> File(EmbsOf(<<[text |-> T2, meta |-> [has |-> TRUE, source |-> "f1"]]>>)),
       idxf |-> File(EmbsOf(<<[text |-> T2, meta |-> [has |-> TRUE, source |-> "f1"]]>>))] }

\* one write of flush(), in the order of lines 210-214; np.save first leaves
\* a file that is not yet complete
FlushWrite(s, d, step) ==
    IF step = "flush_meta" THEN [d EXCEPT !.meta = File(s.rows)]
    ELSE IF step = "flush_emb_open" THEN (IF s.emb.none THEN d ELSE [d EXCEPT !.embf = Corrupt])
    ELSE IF step = "flush_emb" THEN (IF s.emb.none THEN d ELSE [d EXCEPT !.embf = File(s.emb.m)])
    ELSE (IF s.index.none THEN d ELSE [d EXCEPT !.idxf = File(s.index.m)])

FlushOrder == <<"flush_meta", "flush_emb_open", "flush_emb", "flush_index", "done">>
NextFlushStep(step) == FlushOrder[(CHOOSE i \in 1..4 : FlushOrder[i] = step) + 1]

\* a request between its reset and the end of its flush
InBuild(r) == r.pc \notin {"idle", "done"}

\* build_database up to its first await: construct over the directory as it
\* is, reset if forced; no lock is taken
ConcBuildStart(w) ==
    /\ Idle
    /\ reqs[w].pc = "idle"
    /\ \E force \in BOOLEAN, input \in ConcInputs :
          LET loaded == LoadStore(disk)
          IN /\ Len(loaded.rows) + Len(input) <= MaxRows \/ force
             /\ reqs' = [reqs EXCEPT ![w] = [pc |-> "inserting",
                                             rag |-> IF force THEN ResetMem(loaded) ELSE loaded,
                                             force |-> force, input |-> input,
                                             inserted_chunks |-> 0]]
             /\ disk' = IF force THEN ResetDisk(disk) ELSE disk
    /\ last' = "build"
    /\ UNCHANGED <<rag, qres, build, graphVars, deployment, auxVars>>

\* one await rag.ainsert(...) of the loop, or the loop's end
ConcBuildInsert(w) ==
    /\ Idle
    /\ reqs[w].pc = "inserting"
    /\ IF reqs[w].inserted_chunks < Len(reqs[w].input)
       THEN LET in == reqs[w].input[reqs[w].inserted_chunks + 1]
            IN reqs' = [reqs EXCEPT ![w].rag = AinsertMem(@, in.text, in.meta, EmbedOf(in.text)),
                                    ![w].inserted_chunks = @ + 1]
       ELSE reqs' = [reqs EXCEPT ![w].pc = "flush_meta", ![w].rag = FlushMem(@)]
    /\ last' = "ainsert"
    /\ UNCHANGED <<rag, disk, qres, build, graphVars, deployment, auxVars>>

\* one write of the flush that ends the request
ConcBuildFlush(w) ==
    /\ Idle
    /\ reqs[w].pc \in {"flush_meta", "flush_emb_open", "flush_emb", "flush_index"}
    /\ disk' = FlushWrite(reqs[w].rag, disk, reqs[w].pc)
    /\ reqs' = [reqs EXCEPT ![w] = IF NextFlushStep(reqs[w].pc) = "done"
                                   THEN [NoReq EXCEPT !.pc = "done"]
                                   ELSE [@ EXCEPT !.pc = NextFlushStep(reqs[w].pc)]]
    /\ last' = "flush"
    /\ UNCHANGED <<rag, qres, build, graphVars, deployment, auxVars>>

\* r = self._rows[idx] for a hit whose position is not a row: IndexError
RowIndexError(s, mode, top_k0, vres, bres) ==
    \E j \in 1..Len(TopOf(Candidates(vres, bres), mode, Max2(1, top_k0))) :
        TopOf(Candidates(vres, bres), mode, Max2(1, top_k0))[j].idx > Len(s.rows)

\* database_chat: an instance constructed over the directory as it is now,
\* then aquery on it, both services answering
ConcQuery ==
    /\ Idle
    /\ \E query \in Queries, mode \in QModes, top_k \in QTopKs \cup {5} :
          LET s == LoadStore(disk)
          IN IF Len(s.rows) = 0
             THEN qres' = AqueryEmpty(query, mode, top_k)
             ELSE \E vres \in (IF UsesVec(mode)
                               THEN SearchVector(s, EmbedOf(query), Max2(1, top_k) * 2)
                               ELSE {<<>>}) :
                  \E bres \in (IF UsesBm25(mode)
                               THEN SearchBm25(s, query, Max2(1, top_k) * 2)
                               ELSE {<<>>}) :
                     qres' = IF RowIndexError(s, mode, top_k, vres, bres)
                             THEN AqueryRaised(mode, TRUE)
                             ELSE AqueryHits(s, query, mode, top_k, vres, bres)
    /\ last' = "aquery"
    /\ UNCHANGED <<rag, disk, build, graphVars, deployment, reqs, auxVars>>

ConcBuild == \E w \in Builders : ConcBuildStart(w) \/ ConcBuildInsert(w) \/ ConcBuildFlush(w)

CNext == ConcBuild \/ ConcQuery \/ AqueryReturn

CInit ==
    /\ AuxInit
    /\ reqs = NoReqs
    /\ disk \in ConcDisks
    /\ rag = LoadStore(EmptyDisk)
    /\ last = "load"
    /\ qres = NoQuery
    /\ build = NoBuild
    /\ GraphInit
    /\ deployment = "local"

SpecConc == CInit /\ [][CNext]_vars

(***************************************************************************)
(* SpecIns: ainsert calls in flight at once on one instance                *)
(***************************************************************************)
InFlight == { c \in Callers : calls[c].pc = "embedding" }

\* ainsert up to its await: meta = meta or {}, then client.embed is awaited
InsStart(c) ==
    /\ calls[c].pc = "idle"
    /\ Len(rag.rows) + Cardinality(InFlight) < MaxRows
    /\ \E in \in QInputs :
          calls' = [d \in Callers |->
                      IF d = c
                      THEN [pc |-> "embedding", text |-> in.text, meta |-> in.meta,
                            outcome |-> "none", overlap |-> InFlight # {}]
                      ELSE IF calls[d].pc = "embedding" THEN [calls[d] EXCEPT !.overlap = TRUE]
                      ELSE calls[d]]
    /\ last' = "embed"
    /\ UNCHANGED <<rag, disk, qres, build, graphVars, deployment, reqs, srv, fs, ck, otp>>

\* the embedding arrives: the rest of ainsert runs without another await
InsDone(c) ==
    /\ calls[c].pc = "embedding"
    /\ rag' = AinsertMem(rag, calls[c].text, calls[c].meta, EmbedOf(calls[c].text))
    /\ calls' = [calls EXCEPT ![c].pc = "idle", ![c].outcome = "appended"]
    /\ last' = "ainsert"
    /\ UNCHANGED <<disk, qres, build, graphVars, deployment, reqs, srv, fs, ck, otp>>

\* client.embed raises: the exception leaves ainsert
InsFail(c) ==
    /\ calls[c].pc = "embedding"
    /\ calls' = [calls EXCEPT ![c].pc = "idle", ![c].outcome = "raised"]
    /\ last' = "ainsert_raised"
    /\ UNCHANGED <<rag, disk, qres, build, graphVars, deployment, reqs, srv, fs, ck, otp>>

Ins == \E c \in Callers : InsStart(c) \/ InsDone(c) \/ InsFail(c)

INext == Ins

\* an instance constructed over a directory as flush() can leave it
IInit == QInit

SpecIns == IInit /\ [][INext]_vars

(***************************************************************************)
(* SpecSingle: the singleton of simulator_api.py, get_rag and build        *)
(***************************************************************************)
\* most resets of the singleton that are explored
MaxResets == 2

\* the parameters of lightrag_local.LightRAG.__init__ and the keywords get_rag
\* passes to it
InitParams == {"working_dir", "llm_model_name", "embed_model_name", "ollama_base_url"}
InitRequired == {"working_dir", "llm_model_name", "embed_model_name"}
GetRagKwargs == {"llm_client", "embed_client"}
\* a call binds when every keyword is a parameter and no required one is
\* missing; otherwise it raises TypeError
InitAccepts(kwargs) == kwargs \subseteq InitParams /\ InitRequired \subseteq kwargs

\* POST /api/chat up to rag = await get_rag()
SimChat(t) ==
    /\ srv.task[t].pc = "idle"
    /\ srv' = [srv EXCEPT !.task[t] = [pc |-> "get_wait", op |-> "chat", res |-> 0, ep |-> srv.epoch]]
    /\ UNCHANGED <<storeVars, graphVars, deployment, reqs, calls, fs, ck, otp>>

\* POST /api/build up to async with _lock
SimBuild(t) ==
    /\ srv.task[t].pc = "idle"
    /\ srv.epoch < MaxResets
    /\ srv' = [srv EXCEPT !.task[t] = [pc |-> "reset_wait", op |-> "build", res |-> 0, ep |-> srv.epoch]]
    /\ UNCHANGED <<storeVars, graphVars, deployment, reqs, calls, fs, ck, otp>>

\* build: async with _lock entered
SimResetEnter(t) ==
    /\ srv.task[t].pc = "reset_wait"
    /\ srv.lock = "free"
    /\ srv' = [srv EXCEPT !.lock = t, !.task[t].pc = "reset_in"]
    /\ UNCHANGED <<storeVars, graphVars, deployment, reqs, calls, fs, ck, otp>>

\* build: _rag = None, and the lock is released
SimResetBody(t) ==
    /\ srv.task[t].pc = "reset_in"
    /\ srv' = [srv EXCEPT !.rag = 0, !.made = 0, !.epoch = @ + 1, !.lock = "free",
                          !.task[t].pc = "get_wait"]
    /\ UNCHANGED <<storeVars, graphVars, deployment, reqs, calls, fs, ck, otp>>

\* get_rag: async with _lock entered
GetRagEnter(t) ==
    /\ srv.task[t].pc = "get_wait"
    /\ srv.lock = "free"
    /\ srv' = [srv EXCEPT !.lock = t, !.task[t].pc = "get_in"]
    /\ UNCHANGED <<storeVars, graphVars, deployment, reqs, calls, fs, ck, otp>>

\* get_rag inside the lock: the instance there is, or a new one, or the
\* exception of the constructor; the lock is released on every way out
GetRagBody(t) ==
    /\ srv.task[t].pc = "get_in"
    /\ srv' = IF srv.rag # 0
              THEN [srv EXCEPT !.lock = "free", !.task[t].pc = "idle",
                               !.task[t].res = srv.rag, !.task[t].ep = srv.epoch]
              ELSE IF InitAccepts(GetRagKwargs)
              THEN [srv EXCEPT !.rag = srv.next, !.next = @ + 1, !.made = @ + 1, !.lock = "free",
                               !.task[t].pc = "idle",
                               !.task[t].res = srv.next, !.task[t].ep = srv.epoch]
              ELSE [srv EXCEPT !.lock = "free", !.task[t].pc = "idle",
                               !.task[t].res = -1, !.task[t].ep = srv.epoch]
    /\ UNCHANGED <<storeVars, graphVars, deployment, reqs, calls, fs, ck, otp>>

SNext ==
    \E t \in Tasks :
        \/ SimChat(t) \/ SimBuild(t) \/ SimResetEnter(t) \/ SimResetBody(t)
        \/ GetRagEnter(t) \/ GetRagBody(t)

SInit == StoreInit /\ GraphInit /\ deployment = "local"

SpecSingle == SInit /\ [][SNext]_vars

(***************************************************************************)
(* SpecDocs: the documents endpoints of database_api.py                    *)
(***************************************************************************)
DocReq(u, op, status) == [user |-> u, op |-> op, status |-> status]

\* require_admin_or_ta
AdminOrTa(u) == Role(u) \in {"admin", "ta"}

\* require_owner_or_admin(request, rel_path): 0 when it returns, else the
\* status of the HTTPException
OwnerOrAdmin(u, d) ==
    IF Role(u) = "admin" THEN 0
    ELSE IF Role(u) # "ta" THEN 403
    ELSE IF fs.owners[d] = "none" THEN 403
    ELSE IF fs.owners[d] # u THEN 403
    ELSE 0

\* POST /api/documents/mkdir
DocumentsMkdir(u, d) ==
    /\ fs' = IF AdminOrTa(u)
             THEN [fs EXCEPT !.dirs = @ \cup {d}, !.req = DocReq(u, "mkdir", 200)]
             ELSE [fs EXCEPT !.req = DocReq(u, "mkdir", 403)]
    /\ UNCHANGED <<storeVars, graphVars, deployment, reqs, calls, srv, ck, otp>>

\* POST /api/documents/upload of one file named a into folder d
DocumentsUpload(u, d) ==
    /\ fs' = IF AdminOrTa(u)
             THEN [fs EXCEPT !.dirs = @ \cup {d}, !.files[d] = u, !.owners[d] = u,
                             !.req = DocReq(u, "upload", 200)]
             ELSE [fs EXCEPT !.req = DocReq(u, "upload", 403)]
    /\ UNCHANGED <<storeVars, graphVars, deployment, reqs, calls, srv, ck, otp>>

\* DELETE /api/documents/delete of the file d/a
DocumentsDeleteFile(u, d) ==
    /\ fs' = IF fs.files[d] = "none" THEN [fs EXCEPT !.req = DocReq(u, "delete", 404)]
             ELSE IF OwnerOrAdmin(u, d) # 0 THEN [fs EXCEPT !.req = DocReq(u, "delete", OwnerOrAdmin(u, d))]
             ELSE [fs EXCEPT !.files[d] = "none", !.owners[d] = "none",
                             !.req = DocReq(u, "delete", 200)]
    /\ UNCHANGED <<storeVars, graphVars, deployment, reqs, calls, srv, ck, otp>>

\* DELETE /api/documents/delete of the folder d: shutil.rmtree, the owner
\* records stay
DocumentsDeleteDir(u, d) ==
    /\ d # ""
    /\ fs' = IF d \notin fs.dirs THEN [fs EXCEPT !.req = DocReq(u, "rmtree", 404)]
             ELSE IF Role(u) # "admin" THEN [fs EXCEPT !.req = DocReq(u, "rmtree", 403)]
             ELSE [fs EXCEPT !.dirs = @ \ {d}, !.files[d] = "none", !.req = DocReq(u, "rmtree", 200)]
    /\ UNCHANGED <<storeVars, graphVars, deployment, reqs, calls, srv, ck, otp>>

\* POST /api/documents/move of the file s/a to the path d/a: shutil.move
\* replaces a file that is there; doc_move_owner is an UPDATE of the primary
\* key, which fails when the destination has a record
DocumentsMoveFile(u, s, d) ==
    /\ s # d
    /\ fs' = IF fs.files[s] = "none" THEN [fs EXCEPT !.req = DocReq(u, "move", 404)]
             ELSE IF OwnerOrAdmin(u, s) # 0 THEN [fs EXCEPT !.req = DocReq(u, "move", OwnerOrAdmin(u, s))]
             ELSE IF fs.owners[s] # "none" /\ fs.owners[d] # "none"
             THEN [fs EXCEPT !.dirs = @ \cup {d}, !.files[d] = fs.files[s], !.files[s] = "none",
                             !.req = DocReq(u, "move", 500)]
             ELSE [fs EXCEPT !.dirs = @ \cup {d}, !.files[d] = fs.files[s], !.files[s] = "none",
                             !.owners[d] = IF fs.owners[s] # "none" THEN fs.owners[s] ELSE @,
                             !.owners[s] = "none",
                             !.req = DocReq(u, "move", 200)]
    /\ UNCHANGED <<storeVars, graphVars, deployment, reqs, calls, srv, ck, otp>>

\* POST /api/documents/move of the folder s to the name d, which is free:
\* the owner records stay where they were
DocumentsMoveDir(u, s, d) ==
    /\ s # "" /\ d # "" /\ s # d
    /\ d \notin fs.dirs
    /\ fs' = IF s \notin fs.dirs THEN [fs EXCEPT !.req = DocReq(u, "mvdir", 404)]
             ELSE IF Role(u) # "admin" THEN [fs EXCEPT !.req = DocReq(u, "mvdir", 403)]
             ELSE [fs EXCEPT !.dirs = (@ \ {s}) \cup {d}, !.files[d] = fs.files[s], !.files[s] = "none",
                             !.req = DocReq(u, "mvdir", 200)]
    /\ UNCHANGED <<storeVars, graphVars, deployment, reqs, calls, srv, ck, otp>>

DocumentsDelete == \E u \in Users, d \in Dirs : DocumentsDeleteFile(u, d) \/ DocumentsDeleteDir(u, d)
DocumentsMove == \E u \in Users, s \in Dirs, d \in Dirs : DocumentsMoveFile(u, s, d) \/ DocumentsMoveDir(u, s, d)

DNext ==
    \/ \E u \in Users, d \in Dirs : DocumentsMkdir(u, d)
    \/ \E u \in Users, d \in Dirs : DocumentsUpload(u, d)
    \/ DocumentsDelete
    \/ DocumentsMove

DInit == StoreInit /\ GraphInit /\ deployment = "local"

SpecDocs == DInit /\ [][DNext]_vars

(***************************************************************************)
(* SpecChunk: _chunk_text(text, max_chars, overlap)                        *)
(***************************************************************************)
\* longest text, and most windows before a run that makes no progress is cut
MaxTextLen == 4
MaxWindows == 5

Whitespace == {" ", "\r", "\n"}
ChunkChars == {"x", " ", "\r", "\n"}

RECURSIVE NormalizeNewlines(_)
\* text.replace("\r\n", "\n").replace("\r", "\n")
NormalizeNewlines(t) ==
    IF t = <<>> THEN <<>>
    ELSE IF Head(t) = "\r"
         THEN IF Len(t) >= 2 /\ t[2] = "\n" THEN <<"\n">> \o NormalizeNewlines(Tail(Tail(t)))
              ELSE <<"\n">> \o NormalizeNewlines(Tail(t))
         ELSE <<Head(t)>> \o NormalizeNewlines(Tail(t))

RECURSIVE LStrip(_)
LStrip(t) == IF t # <<>> /\ Head(t) \in Whitespace THEN LStrip(Tail(t)) ELSE t
RECURSIVE RStrip(_)
RStrip(t) == IF t # <<>> /\ t[Len(t)] \in Whitespace THEN RStrip(SubSeq(t, 1, Len(t) - 1)) ELSE t
\* str.strip()
Strip(t) == RStrip(LStrip(t))

\* text[i:j] for 0 <= i, with Python's clipping of j
Slice(t, i, j) == IF j <= i THEN <<>> ELSE SubSeq(t, i + 1, Min2(j, Len(t)))

\* variant: the next window starts behind the end of this one
NextStart_Skip(j, overlap) == j + 1

\* i = max(0, j - overlap)
NextStart(j, overlap) == Max2(0, j - overlap)

\* _chunk_text up to its loop: the text normalised and stripped; an empty text
\* returns at once
ChunkEntry(raw, max_chars, overlap) ==
    LET text == Strip(NormalizeNewlines(raw))
    IN [pc |-> IF text = <<>> THEN "done" ELSE "loop", raw |-> raw, text |-> text, n |-> Len(text),
        i |-> 0, max_chars |-> max_chars, overlap |-> overlap, chunks |-> <<>>, windows |-> <<>>]

\* one turn of the loop; it ends the run at the break and when the while test
\* fails
ChunkIter ==
    /\ ck.pc = "loop"
    /\ Len(ck.windows) < MaxWindows
    /\ LET j == Min2(ck.n, ck.i + ck.max_chars)
           chunk == Strip(Slice(ck.text, ck.i, j))
           i2 == NextStart(j, ck.overlap)
       IN ck' = [ck EXCEPT !.chunks = IF chunk # <<>> THEN Append(@, chunk) ELSE @,
                           !.windows = Append(@, <<ck.i, j>>),
                           !.i = IF j >= ck.n THEN ck.i ELSE i2,
                           !.pc = IF j >= ck.n \/ i2 >= ck.n THEN "done" ELSE "loop"]
    /\ UNCHANGED <<storeVars, graphVars, deployment, reqs, calls, srv, fs, otp>>

\* return chunks
ChunkReturn ==
    /\ ck.pc = "done"
    /\ ck' = [ck EXCEPT !.pc = "returned"]
    /\ UNCHANGED <<storeVars, graphVars, deployment, reqs, calls, srv, fs, otp>>

KNext == ChunkIter \/ ChunkReturn

\* every call: a text of up to MaxTextLen characters with its two parameters
KInit ==
    /\ reqs = NoReqs
    /\ disk = EmptyDisk
    /\ rag = LoadStore(EmptyDisk)
    /\ last = "load"
    /\ qres = NoQuery
    /\ build = NoBuild
    /\ GraphInit
    /\ deployment = "local"
    /\ calls = NoCalls /\ srv = NoSrv /\ fs = NoFs /\ otp = NoOtp
    /\ ck \in { ChunkEntry(raw, m, o) : raw \in SeqsUpTo(ChunkChars, MaxTextLen), m \in 0..3, o \in (0 - 1)..3 }

\* the loop is a sequential program: a turn that can run does run
SpecChunk == KInit /\ [][KNext]_vars /\ WF_vars(ChunkIter) /\ WF_vars(ChunkReturn)

(***************************************************************************)
(* SpecOtp: /start and /verify over the OTPStore, for one email            *)
(***************************************************************************)
\* STUDENT_OTP_TTL_SECONDS (default 300) and STUDENT_MAX_OTP_ATTEMPTS
\* (default 5), set small
STUDENT_OTP_TTL_SECONDS == 2
STUDENT_MAX_OTP_ATTEMPTS == 2
\* the last second of the clock that is explored
MaxTime == 4
\* the codes random.randint can draw and a caller can guess
Codes == {"111111", "222222"}

\* hash_code: an injective function of the code
HashCode(code) == <<"hmac", code>>

\* OTPStore.get at time t: a record past its expiry is dropped
OtpGet(rec, t) == IF rec.none \/ t > rec.expires THEN NoOtpRec ELSE rec

\* if attempts > STUDENT_MAX_OTP_ATTEMPTS
Exceeded(attempts) == attempts > STUDENT_MAX_OTP_ATTEMPTS

\* POST /start: a new code replaces the record, attempts 0
OtpStart ==
    /\ \E code \in Codes :
          otp' = [otp EXCEPT !.rec = [none |-> FALSE, otp_hash |-> HashCode(code),
                                       expires |-> otp.now + STUDENT_OTP_TTL_SECONDS, attempts |-> 0],
                             !.issued = code, !.issued_exp = otp.now + STUDENT_OTP_TTL_SECONDS,
                             !.compared = 0, !.tokens = 0, !.res = NoVerify]
    /\ UNCHANGED <<storeVars, graphVars, deployment, reqs, calls, srv, fs, ck>>

\* POST /verify with the guess. The handler reads the clock three times: in
\* get, in its own expiry check (after d1 seconds) and in the get inside
\* incr_attempts (after d2 more); when the record expires before the last
\* read, incr_attempts returns 0 and the guess is compared all the same
OtpVerify ==
    /\ \E guess \in Codes, d1 \in {0, 1}, d2 \in {0, 1} :
          LET rec == OtpGet(otp.rec, otp.now)
              t1 == otp.now + d1
              t2 == t1 + d2
              again == OtpGet(rec, t2)
              attempts == IF again.none THEN 0 ELSE again.attempts + 1
              counted == IF again.none THEN again ELSE [again EXCEPT !.attempts = attempts]
              res(status) == [status |-> status, guess |-> guess, at |-> otp.now, had |-> ~otp.rec.none]
          IN /\ t2 <= MaxTime
             /\ otp' =
                  IF rec.none
                  THEN [otp EXCEPT !.rec = NoOtpRec, !.res = res(401)]
                  ELSE IF rec.expires # 0 /\ t1 > rec.expires
                  THEN [otp EXCEPT !.rec = NoOtpRec, !.now = t1, !.res = res(401)]
                  ELSE IF Exceeded(attempts)
                  THEN [otp EXCEPT !.rec = NoOtpRec, !.now = t2, !.res = res(429)]
                  ELSE IF HashCode(guess) # rec.otp_hash
                  THEN [otp EXCEPT !.rec = counted, !.now = t2, !.compared = @ + 1,
                                   !.res = res(401)]
                  ELSE [otp EXCEPT !.rec = NoOtpRec, !.now = t2, !.compared = @ + 1,
                                   !.tokens = @ + 1, !.res = res(200)]
    /\ UNCHANGED <<storeVars, graphVars, deployment, reqs, calls, srv, fs, ck>>

\* a second passes
OtpTick ==
    /\ otp.now < MaxTime
    /\ otp' = [otp EXCEPT !.now = @ + 1]
    /\ UNCHANGED <<storeVars, graphVars, deployment, reqs, calls, srv, fs, ck>>

ONext == OtpStart \/ OtpVerify \/ OtpTick

OInit == StoreInit /\ GraphInit /\ deployment = "local"

SpecOtp == OInit /\ [][ONext]_vars

(***************************************************************************)
(* Properties                                                              *)
(***************************************************************************)
\* row i, embedding i and index entry i belong to the same chunk
RowsEmbAligned(s) ==
    /\ Len(s.emb.m) = Len(s.rows)
    /\ Len(s.index.m) = Len(s.rows)
    /\ \A i \in 1..Len(s.rows) :
          /\ s.emb.m[i] = Normalize(EmbedOf(s.rows[i].text))
          /\ s.index.m[i] = Normalize(EmbedOf(s.rows[i].text))

\* meta.json and embeddings.npy describe the same chunks, position by position
FilesAligned(d) ==
    Len(LoadJson(d.meta)) > 0 =>
        /\ d.embf.exists /\ d.embf.ok
        /\ Len(d.embf.m) = Len(d.meta.m)
        /\ \A i \in 1..Len(d.meta.m) : d.embf.m[i] = Normalize(EmbedOf(d.meta.m[i].text))

\* C1: in every reachable state of the chunk store the row list, the embedding
\* matrix and the vector index have the same number of entries and entry i of
\* each belongs to the same chunk; the files a flush has written are aligned too.
C1_RowsAndEmbeddingsAligned ==
    /\ RowsEmbAligned(rag)
    /\ (last = "flush" => FilesAligned(disk))

\* the context aquery hands to the model is within budget plus marker, and is
\* the plain join when that fits
LocalContextBounded ==
    qres.status = "ok" =>
        /\ Len(qres.context) <= MAX_CTX_CHARS + Len(TRUNC_MARK)
        /\ (Len(qres.joined) <= MAX_CTX_CHARS => qres.context = qres.joined)

\* C2: in every query path (aquery of the local store, retrieve/generate of the
\* graph engine) the context handed to the completion client is at most
\* MAX_CTX_CHARS plus the truncation marker long, and untruncated when it fits.
C2_ContextBounded ==
    /\ LocalContextBounded
    /\ (gres.status = "ok" => gres.ctx_len <= MAX_CTX_CHARS + Len(TRUNC_MARK))

\* C3: a query against a store with zero chunks, in every mode and for every
\* top_k, returns the canned answer with no sources and no hits, raises nothing
\* and calls neither the embedding nor the completion client.
C3_EmptyStoreQuery ==
    (qres.status # "none" /\ Len(rag.rows) = 0) =>
        /\ qres.status = "empty"
        /\ qres.answer = "Database is empty. Build the database first."
        /\ qres.sources = <<>>
        /\ qres.hits = <<>>
        /\ qres.embed_calls = 0
        /\ qres.generate_calls = 0

C3_Witness ==
    /\ qres.status = "empty"
    /\ qres.mode = "hybrid"
    /\ qres.top_k = 0
    /\ Len(rag.rows) = 0

\* C4: for every completion text keyword extraction raises nothing, and whenever
\* the text is not the two-key JSON object the result is the fallback
\* {high_level: [query], low_level: []}, so that retrieve reads both lists.
C4_KeywordFallback ==
    gres.status # "none" =>
        /\ gres.status # "raised"
        /\ (gres.completion # "object2" => gres.keywords = KwFallback(GQuery))

Names == {NA, NB, NAB}
IsEntity(it) == Len(it) = 4 /\ it[1] = "entity"
IsRel(it) == Len(it) = 5 /\ it[1] = "relationship"
EntitiesOf(items, n) == SelectSeq(items, LAMBDA it : IsEntity(it) /\ it[2] = n)
RelsOf(items, pr) == SelectSeq(items, LAMBDA it : IsRel(it) /\ {it[2], it[3]} = pr)
DescsOf(items, k) == [i \in 1..Len(items) |-> items[i][k]]
\* the graph in memory was built by this engine from the fragments in fed
BuiltHere == ginfo.outcome \in {"building", "built", "parse_raised", "extract_raised"}

\* C5: after entity records with the same name and descriptions d1 then d2, in
\* one chunk or in several, the graph has one node of that name, described by
\* d1, a space, d2, and typed as the first record.
C5_EntityMerge ==
    \A n \in Names :
        Len(EntitiesOf(fed, n)) > 0 =>
            /\ HasNode(graph_db, n)
            /\ Cardinality({ i \in 1..Len(graph_db.order) : graph_db.order[i] = n }) = 1
            /\ graph_db.nodes[n].has
            /\ graph_db.nodes[n].description = JoinSeq(DescsOf(EntitiesOf(fed, n), 4), <<" ">>)
            /\ graph_db.nodes[n].type = EntitiesOf(fed, n)[1][3]

C5_Witness ==
    /\ Len(EntitiesOf(fed, NA)) = 2
    /\ EntitiesOf(fed, NA)[1][3] # EntitiesOf(fed, NA)[2][3]
    /\ graph_db.nodes[NA].description = <<"x", " ", "y">>
    /\ graph_db.nodes[NA].type = PERSON

NumberOfNodes(g) == Len(g.order)
EntityNames(items) == { n \in Names : Len(EntitiesOf(items, n)) > 0 }
EndpointNames(items) == { n \in Names : \E i \in 1..Len(items) : IsRel(items[i]) /\ n \in {items[i][2], items[i][3]} }

\* C6: for every sequence of entity records the number of nodes equals the
\* number of distinct names in it (with relationship records in between: the
\* distinct names among the entity records and the relationship endpoints).
C6_NodeCount ==
    BuiltHere =>
        /\ NumberOfNodes(graph_db) = Cardinality(EntityNames(fed) \cup EndpointNames(fed))
        /\ DOMAIN graph_db.nodes = EntityNames(fed) \cup EndpointNames(fed)
        /\ (EndpointNames(fed) = {} => NumberOfNodes(graph_db) = Cardinality(EntityNames(fed)))

C6_Witness ==
    /\ BuiltHere
    /\ EndpointNames(fed) = {}
    /\ Len(EntitiesOf(fed, NA)) = 2
    /\ Len(EntitiesOf(fed, NB)) = 1
    /\ NumberOfNodes(graph_db) = 2

\* C7: inserting an entity whose name is already a node raises no error and
\* appends the description, also when the node exists only as the endpoint of
\* an earlier relationship record.
C7_EntityInsertNeverRaises == ginfo.outcome # "parse_raised"

Pairs == { {u, v} : u \in Names, v \in Names }

\* C8: a relationship record for a pair that already has an edge, in either
\* endpoint order, creates no second edge: its description is appended after a
\* space and the keywords stay those of the first record; otherwise one edge is
\* created with the record's description and keywords.
C8_EdgeMerge ==
    BuiltHere =>
        /\ DOMAIN graph_db.edges = { pr \in Pairs : Len(RelsOf(fed, pr)) > 0 }
        /\ \A pr \in DOMAIN graph_db.edges :
              /\ graph_db.edges[pr].description = JoinSeq(DescsOf(RelsOf(fed, pr), 4), <<" ">>)
              /\ graph_db.edges[pr].keywords = RelsOf(fed, pr)[1][5]

C8_Witness ==
    /\ BuiltHere
    /\ Len(RelsOf(fed, {NA, NB})) = 2
    /\ RelsOf(fed, {NA, NB})[1][2] # RelsOf(fed, {NA, NB})[2][2]
    /\ Cardinality(DOMAIN graph_db.edges) = 1
    /\ graph_db.edges[{NA, NB}].description = <<"x", " ", "y">>
    /\ graph_db.edges[{NA, NB}].keywords = KK

\* C9: the (index, score) list of _search_vector is in non-increasing score
\* order, and the hits of aquery are in non-increasing score order in every
\* mode, hits of equal score in the order in which they became candidates.
C9_RankedOrder ==
    qres.status = "ok" =>
        /\ \A i \in 1..(Len(qres.vec) - 1) : qres.vec[i].score >= qres.vec[i + 1].score
        /\ \A i \in 1..(Len(qres.hits) - 1) :
              /\ FracLeq(qres.hits[i + 1].score, qres.hits[i].score)
              /\ (FracEq(qres.hits[i + 1].score, qres.hits[i].score)
                     => qres.hits[i].pos < qres.hits[i + 1].pos)

C9_Witness ==
    /\ qres.status = "ok"
    /\ qres.mode = "hybrid"
    /\ Len(qres.vec) = 2
    /\ Len(qres.hits) = 2
    /\ FracEq(qres.hits[1].score, qres.hits[2].score)
    /\ qres.hits[1].idx # qres.hits[2].idx

\* the graph the fragments make of an empty graph
GraphOf(items) == ParseAndInsertGraphData(EmptyGraph, items).g

C12_SingleWriter == ~(InBuild(reqs["b1"]) /\ InBuild(reqs["b2"]))

\* C13: a query that constructs its store at any point of concurrent builds does
\* not fail: it returns the empty-database answer, or hits each of which is a
\* row of meta.json as the query loaded it.
C13_QueryDuringBuild ==
    qres.status # "none" =>
        \/ /\ qres.status = "empty"
           /\ LoadJson(disk.meta) = <<>>
        \/ /\ qres.status = "ok"
           /\ \A j \in 1..Len(qres.hits) :
                 /\ qres.hits[j].idx \in 1..Len(LoadJson(disk.meta))
                 /\ qres.hits[j].text = LoadJson(disk.meta)[qres.hits[j].idx].text
                 /\ qres.hits[j].meta = LoadJson(disk.meta)[qres.hits[j].idx].meta

\* a query answered from meta.json while embeddings.npy is partly written
C13_Witness ==
    /\ qres.status = "ok"
    /\ Len(qres.hits) > 0
    /\ disk.embf = Corrupt
    /\ \E w \in Builders : reqs[w].pc = "flush_emb"

\* C14: a model or embedding call that fails for one chunk of an index build
\* does not end the build: the chunk is skipped and the build goes on to its
\* flush, so no build ends with its loop abandoned.
C14_FailedChunkSkipped ==
    /\ build.outcome # "failed"
    /\ ginfo.outcome # "extract_raised"

\* C15: a build whose final flush raised is not reported to its caller as a
\* successful build.
C15_FlushFailureSurfaced == build.flush_raised => build.outcome # "built"

\* C16: after a build that ended by a failure, on a directory that held rows
\* with their embeddings, a store constructed over the directory has rows and
\* has their embeddings: the flushed ones or the complete new ones.
C16_FlushedStateKept ==
    (build.pc = "idle" /\ build.prior /\ (build.outcome = "failed" \/ build.flush_raised)) =>
        /\ Len(LoadStore(disk).rows) > 0
        /\ RowsEmbAligned(LoadStore(disk))

\* C17: a query on a store with rows always ends with a structured
\* {answer, sources, hits} object; no exception of the embedding or the
\* completion service leaves the query operation.
C17_QueryAlwaysAnswers ==
    (qres.status # "none" /\ Len(rag.rows) > 0) => qres.status = "ok"

WellFormed(it) == IsEntity(it) \/ IsRel(it)

\* C18: a fragment that is neither a 4-field entity nor a 5-field relationship
\* leaves the graph as it is (the graph is the one the well-formed fragments
\* make), and parsing an output that holds such a fragment raises nothing, so
\* that every well-formed fragment of it is inserted.
C18_MalformedSkipped ==
    BuiltHere =>
        /\ graph_db = GraphOf(SelectSeq(fed, WellFormed))
        /\ ((\E i \in 1..Len(fed) : ~WellFormed(fed[i])) => ginfo.outcome # "parse_raised")

\* the first conjunct of C18 alone: skipped fragments change nothing
MalformedLeaveGraph == BuiltHere => graph_db = GraphOf(SelectSeq(fed, WellFormed))

\* a chunk's own scores for a query, computed from its text
OwnVec(query, text) == Dot(Normalize(EmbedOf(query)), Normalize(EmbedOf(text)))
OwnBm(query, text) == Bm25GetScores(<<Tokenize(text)>>, Tokenize(query))[1]
OwnFused(query, text) == Total([vec |-> OwnVec(query, text), bm |-> OwnBm(query, text)], "hybrid")
HitIdxs == { qres.hits[j].idx : j \in 1..Len(qres.hits) }

ModeSelectsSearches ==
    qres.status = "ok" =>
        /\ qres.mode = "vector" =>
              /\ qres.bm = <<>>
              /\ qres.embed_calls = 1
              /\ HitIdxs \subseteq { qres.vec[j].idx : j \in 1..Len(qres.vec) }
              /\ \A j \in 1..Len(qres.hits) :
                    FracEq(qres.hits[j].score,
                           Frac(OwnVec(qres.query, rag.rows[qres.hits[j].idx].text), UNIT * UNIT))
        /\ qres.mode = "bm25" =>
              /\ qres.vec = <<>>
              /\ qres.embed_calls = 0
              /\ HitIdxs \subseteq { qres.bm[j].idx : j \in 1..Len(qres.bm) }
        /\ qres.mode = "hybrid" =>
              /\ qres.embed_calls = 1
              /\ qres.vec \in SearchVector(rag, EmbedOf(qres.query), Max2(1, qres.top_k) * 2)
              /\ qres.bm \in SearchBm25(rag, qres.query, Max2(1, qres.top_k) * 2)

\* C19: the mode selects the searches: in mode "vector" only the vector search
\* gives candidates and a hit's score is the cosine similarity of its chunk; in
\* mode "bm25" only the keyword search gives candidates and the embedding
\* client is not called; in mode "hybrid" both searches run.
C19_ModeSelectsSearches == ModeSelectsSearches

\* the same on stores whose rows and embeddings correspond
ModeSelectsSearchesAligned == RowsEmbAligned(rag) => ModeSelectsSearches

HybridTopK ==
    (qres.status = "ok" /\ qres.mode = "hybrid") =>
        /\ Len(qres.hits) = Min2(Max2(1, qres.top_k), Len(rag.rows))
        /\ Cardinality(HitIdxs) = Len(qres.hits)
        /\ \A j \in 1..Len(qres.hits) :
              FracEq(qres.hits[j].score, OwnFused(qres.query, rag.rows[qres.hits[j].idx].text))
        /\ \A i \in (1..Len(rag.rows)) \ HitIdxs : \A j \in 1..Len(qres.hits) :
              FracLeq(OwnFused(qres.query, rag.rows[i].text),
                      OwnFused(qres.query, rag.rows[qres.hits[j].idx].text))

\* C20: in hybrid mode the hits are the k chunks with the highest fused score
\* among all chunks of the store, a chunk's fused score being 0.75 times its
\* own vector score plus 0.25 times its own bm/(|bm|+8), and no chunk is
\* returned twice.
C20_HybridTopK == HybridTopK

\* the same on stores whose rows and embeddings correspond and whose keyword
\* index covers every row
HybridTopKAligned ==
    (RowsEmbAligned(rag) /\ rag.bm25 = Some(rag.bm25_tokens)) => HybridTopK

\* a hit carries a source when its metadata has a non-empty string under "source"
Carries(h, src) == h.meta.has /\ h.meta.source # "" /\ h.meta.source = src
FirstHit(src) == CHOOSE j \in 1..Len(qres.hits) :
                    /\ Carries(qres.hits[j], src)
                    /\ \A i \in 1..(j - 1) : ~Carries(qres.hits[i], src)

\* C21: the sources list of a query holds each distinct non-empty string source
\* of the returned hits exactly once, in the order of the first hit carrying
\* it, and nothing that is not the source of a returned hit.
C21_SourcesDeduplicated ==
    qres.status = "ok" =>
        /\ \A j \in 1..Len(qres.hits) :
              (qres.hits[j].meta.has /\ qres.hits[j].meta.source # "")
                 => \E i \in 1..Len(qres.sources) : qres.sources[i] = qres.hits[j].meta.source
        /\ \A i \in 1..Len(qres.sources) :
              \E j \in 1..Len(qres.hits) : Carries(qres.hits[j], qres.sources[i])
        /\ \A i, k \in 1..Len(qres.sources) : i # k => qres.sources[i] # qres.sources[k]
        /\ \A i, k \in 1..Len(qres.sources) :
              i < k => FirstHit(qres.sources[i]) < FirstHit(qres.sources[k])

\* two hits of one source: the source is listed once
C21_Witness ==
    /\ qres.status = "ok"
    /\ Len(qres.hits) = 2
    /\ qres.hits[1].idx # qres.hits[2].idx
    /\ Carries(qres.hits[1], qres.hits[2].meta.source)
    /\ qres.sources = <<qres.hits[1].meta.source>>

\* a store constructed over the directory equals s in rows, has embeddings and
\* index entries for them, and a keyword index over all of them
RoundTrip(s, d) ==
    /\ LoadStore(d).rows = s.rows
    /\ RowsEmbAligned(LoadStore(d))
    /\ LoadStore(d).bm25_tokens = [i \in 1..Len(s.rows) |-> Tokenize(s.rows[i].text)]
    /\ (Len(s.rows) > 0 => LoadStore(d).bm25 = Some(LoadStore(d).bm25_tokens))

\* C22: after flush() on a store with any number of rows, a new store
\* constructed on the same working directory has the same rows in the same
\* order, an embedding matrix and vector index aligned with them, and a
\* keyword index that covers every row.
C22_FlushLoadRoundTrip == last = "flush" => RoundTrip(rag, disk)

\* the same for the flush of a store whose rows and embeddings correspond
FlushLoadRoundTripAligned == (last = "flush" /\ RowsEmbAligned(rag)) => RoundTrip(rag, disk)

IsPrefix(a, b) == Len(a) <= Len(b) /\ SubSeq(b, 1, Len(a)) = a

\* the call that ended in this step
Ended(c) == calls[c].pc = "embedding" /\ calls'[c].pc = "idle"

\* C23: each ainsert call, with other calls in flight or not, either appends
\* exactly one row, one embedding and one token list at the end and leaves
\* every row and embedding that was there unchanged and in place, or, when the
\* embedding call fails, changes nothing; a call that is suspended changes nothing.
C23_AinsertAtomicAppend ==
    [][ /\ \A c \in Callers :
              Ended(c) =>
                 \/ /\ calls'[c].outcome = "raised"
                    /\ rag' = rag
                 \/ /\ calls'[c].outcome = "appended"
                    /\ Len(rag'.rows) = Len(rag.rows) + 1
                    /\ IsPrefix(rag.rows, rag'.rows)
                    /\ rag'.rows[Len(rag'.rows)].text = calls[c].text
                    /\ rag'.rows[Len(rag'.rows)].meta = calls[c].meta
                    /\ Len(rag'.emb.m) = Len(rag.emb.m) + 1
                    /\ IsPrefix(rag.emb.m, rag'.emb.m)
                    /\ rag'.emb.m[Len(rag'.emb.m)] = Normalize(EmbedOf(calls[c].text))
                    /\ Len(rag'.bm25_tokens) = Len(rag.bm25_tokens) + 1
                    /\ IsPrefix(rag.bm25_tokens, rag'.bm25_tokens)
                    /\ rag'.bm25_tokens[Len(rag'.bm25_tokens)] = Tokenize(calls[c].text)
        /\ (\A c \in Callers : ~Ended(c)) => rag' = rag ]_vars

\* two calls that were suspended at the same time have both appended
C23_Witness ==
    /\ \A c \in Callers : calls[c].pc = "idle" /\ calls[c].outcome = "appended" /\ calls[c].overlap
    /\ Len(rag.rows) = 3

\* the rows the live BM25 index was not built over
Uncovered(s) == Len(s.rows) - (IF s.bm25.none THEN 0 ELSE Len(s.bm25.m))

\* C24: in every reachable state the number of rows not yet covered by the live
\* BM25 index is less than BM25_REBUILD_EVERY, and it is zero immediately after
\* flush() and immediately after load.
C24_Bm25Cadence ==
    /\ Uncovered(rag) >= 0
    /\ Uncovered(rag) < BM25_REBUILD_EVERY
    /\ (last \in {"flush", "load"} => Uncovered(rag) = 0)
    /\ (~rag.bm25.none => IsPrefix(rag.bm25.m, rag.bm25_tokens))

\* a flush between two rebuilds of the cadence: the counter is kept, the index
\* covers every row
C24_Witness ==
    /\ last = "flush"
    /\ Len(rag.rows) = 3
    /\ rag.inserts_since_bm25 = 1
    /\ rag.bm25 = Some(rag.bm25_tokens)

\* the endpoints of the edge a relation document was profiled from
EndsOf(key) == UNION { {u, v} : <<u, v>> \in { pr \in Names \X Names : pr[1] \o <<"-">> \o pr[2] = key } }
EntityHits == { i \in gres.docs : chroma.docs[i].type = "entity" }
RelationHits == { i \in gres.docs : chroma.docs[i].type = "relation" }
\* the nodes the hits name
HitNodes == { chroma.docs[i].key : i \in EntityHits } \cup UNION { EndsOf(chroma.docs[i].key) : i \in RelationHits }
NeighborTexts(g, ns) ==
    UNION { { S_RelatedEntity \o m \o S_Connection \o g.edges[{n, m}].description : m \in Neighbors(g, n) } :
            n \in { x \in ns : HasNode(g, x) } }
HasDash(n) == IndexOfDash(n, 1) # 0

ExpansionExact ==
    gres.status = "ok" =>
        /\ gres.nodes = HitNodes
        /\ gres.texts = { chroma.docs[i].page_content : i \in gres.docs } \cup NeighborTexts(graph_db, HitNodes)

\* C25: for every retrieved relation hit between u and v, also when a name
\* contains '-', the 1-hop expansion uses exactly the nodes u and v, for every
\* entity hit exactly that entity, and the context holds the hit texts and one
\* neighbour description per edge at those nodes, nothing from further away.
C25_OneHopExpansion == ExpansionExact

\* the same when no relation hit has an endpoint with '-' in its name
ExpansionExactNoDash ==
    (\A i \in RelationHits : \A n \in EndsOf(chroma.docs[i].key) : ~HasDash(n)) => ExpansionExact

Returned(t) == srv.task[t].pc = "idle" /\ srv.task[t].op # "none"

\* at most one construction between two resets, one instance for the callers
\* of one period, and _rag written only by the holder of the lock
SingletonDiscipline ==
    /\ srv.made <= 1
    /\ \A t, u \in Tasks :
          (Returned(t) /\ Returned(u) /\ srv.task[t].ep = srv.task[u].ep
             /\ srv.task[t].res > 0 /\ srv.task[u].res > 0)
          => srv.task[t].res = srv.task[u].res
    /\ Cardinality({ t \in Tasks : srv.task[t].pc \in {"reset_in", "get_in"} }) <= 1
    /\ \A t \in Tasks : srv.task[t].pc \in {"reset_in", "get_in"} => srv.lock = t

\* C26: under any interleaving of get_rag callers the engine is constructed at
\* most once between two resets and every caller between those resets
\* receives the same instance; a build replaces the instance only while
\* holding the lock.
C26_SingletonUnderLock ==
    /\ SingletonDiscipline
    /\ \A t \in Tasks : Returned(t) => srv.task[t].res > 0

\* the file d/a is there and its owner record names another user or is missing
NotOwnedBy(u, d) == fs.files[d] # "none" /\ fs.owners[d] # u

\* the step is a request of a TA that leaves every file the TA does not own
\* as it was
TaLeavesOthers ==
    Role(fs'.req.user) = "ta" =>
        \A d \in Dirs : NotOwnedBy(fs'.req.user, d) => fs'.files[d] = fs.files[d]

\* C27: no request made with the TA role changes, overwrites, deletes or moves
\* a file whose owner record names a different user or that has no owner
\* record, after any sequence of upload, delete, move and mkdir requests.
C27_TaOwnFilesOnly == [][TaLeavesOthers]_vars

\* the same for the delete requests alone
TaDeletesOwnOnly == [][fs'.req.op = "delete" => TaLeavesOthers]_vars

InRange(res, s) == \A j \in 1..Len(res) : res[j].idx \in 1..Len(s.rows)

\* C28: in every state reachable by load, ainsert, flush, reset and queries,
\* every index _search_vector and _search_bm25 return, for every query and
\* every k, is the position of a row, so the row lookup of aquery is in range.
C28_SearchIndexInRange ==
    /\ \A query \in Queries, k \in {2, 4} :
          /\ \A res \in SearchVector(rag, EmbedOf(query), k) : InRange(res, rag)
          /\ \A res \in SearchBm25(rag, query, k) : InRange(res, rag)
    /\ (qres.status = "ok" => InRange(qres.vec, rag) /\ InRange(qres.bm, rag))

\* a hybrid query after a reset and new inserts, both searches returning the
\* last row
C28_Witness ==
    /\ qres.status = "ok"
    /\ qres.mode = "hybrid"
    /\ ~disk.meta.exists
    /\ Len(rag.rows) = 2
    /\ \E j \in 1..Len(qres.vec) : qres.vec[j].idx = Len(rag.rows)
    /\ \E j \in 1..Len(qres.bm) : qres.bm[j].idx = Len(rag.rows)

Finished == ck.pc \in {"done", "returned"}

\* windows of at most max_chars characters, each starting max_chars - overlap
\* behind the one before, together holding every character of the text; the
\* chunks are the stripped windows that are not empty
ChunkWindows ==
    /\ \A k \in 1..Len(ck.windows) : ck.windows[k][2] - ck.windows[k][1] <= ck.max_chars
    /\ \A k \in 1..(Len(ck.windows) - 1) :
          ck.windows[k + 1][1] - ck.windows[k][1] = ck.max_chars - ck.overlap
    /\ Finished =>
          /\ \A p \in 0..(ck.n - 1) :
                \E k \in 1..Len(ck.windows) : ck.windows[k][1] <= p /\ p < ck.windows[k][2]
          /\ (Strip(NormalizeNewlines(ck.raw)) = <<>> => ck.chunks = <<>>)
          /\ \A k \in 1..Len(ck.chunks) : ck.chunks[k] # <<>> /\ Len(ck.chunks[k]) <= ck.max_chars

\* C29: whenever overlap < max_chars, _chunk_text terminates, each window is at
\* most max_chars characters, consecutive windows advance by max_chars -
\* overlap, every character of the normalised, stripped text lies in a window,
\* and an empty or whitespace-only text yields no chunks.
C29_ChunkTextCovers ==
    /\ [](ck.overlap < ck.max_chars => ChunkWindows)
    /\ ((ck.pc = "loop" /\ ck.overlap < ck.max_chars) ~> Finished)

\* C29, amended: the same whenever 0 <= overlap < max_chars.
C29_ChunkTextCoversAmended ==
    /\ []((0 <= ck.overlap /\ ck.overlap < ck.max_chars) => ChunkWindows)
    /\ ((ck.pc = "loop" /\ 0 <= ck.overlap /\ ck.overlap < ck.max_chars) ~> Finished)

\* a text of four characters cut into three overlapping windows
C29_Witness ==
    /\ ck.pc = "returned"
    /\ ck.n = 4 /\ ck.max_chars = 2 /\ ck.overlap = 1
    /\ ck.windows = <<<<0, 2>>, <<1, 3>>, <<2, 4>>>>
    /\ Len(ck.chunks) = 3

\* C30: a token is minted only by a verify whose code is the one issued last,
\* not yet expired when the verify began; at most one token is minted for a
\* code and at most STUDENT_MAX_OTP_ATTEMPTS guesses are compared with it; after a
\* success or a 429 the record is gone, so later verifies fail until /start.
C30_OtpSingleUse ==
    /\ otp.tokens <= 1
    /\ otp.compared <= STUDENT_MAX_OTP_ATTEMPTS
    /\ otp.res.status = 200 =>
          /\ otp.res.had
          /\ otp.res.guess = otp.issued
          /\ otp.res.at <= otp.issued_exp
    /\ otp.res.status \in {200, 429} => otp.rec.none
    /\ (otp.tokens = 1 => otp.rec.none)

\* the same without the bound on the guesses compared: what the handler keeps
\* although the clock moves between its reads
OtpMintsIssuedCodeOnce ==
    /\ otp.tokens <= 1
    /\ otp.compared <= STUDENT_MAX_OTP_ATTEMPTS + 1
    /\ otp.res.status = 200 => otp.res.had /\ otp.res.guess = otp.issued /\ otp.res.at <= otp.issued_exp
    /\ otp.res.status \in {200, 429} => otp.rec.none

\* a token is minted by the verify that follows STUDENT_MAX_OTP_ATTEMPTS wrong guesses
OtpMintAfterLimit ==
    /\ otp.res.status = 200
    /\ otp.compared = STUDENT_MAX_OTP_ATTEMPTS + 1

====
